---- MODULE Spec2Model ----
(***************************************************************************)
(* A model of ktuban/cachejs: the in-process backend (MemoryCache over an  *)
(* lru-cache store), the shared BaseCache logic, the ScopedCache wrapper,  *)
(* the RedisCache over a Redis server, the CacheRegistry, the createCache   *)
(* factory and stableHash.  Strings are sequences of one-character         *)
(* strings, so that prefixing, startsWith and pattern matching are         *)
(* computed, not assumed.                                                  *)
(***************************************************************************)
EXTENDS Integers, Sequences, FiniteSets, TLC

VARIABLES
    store,      \* LRUCache contents: full key -> [value, start, ttl]
    order,      \* LRUCache recency list, least recently used first
    now,        \* the clock read by the LRUCache (performance.now())
    hits,       \* BaseCache.hits
    misses,     \* BaseCache.misses
    options,    \* BaseCache.options of the MemoryCache
    lruMax,     \* the `max` the LRUCache was constructed with
    lruTtl,     \* the `ttl` the LRUCache was constructed with
    scopes,     \* ScopedCache.options, per ScopedCache instance
    last,       \* the last completed call: [op, h, key, res]
    disposed,   \* history: the handles on which dispose()/disconnect() returned
    written,    \* history: full key -> the last set of it still in effect
    rstore,     \* the keys of the Redis server: full key -> [raw, expireAt]
    rhits,      \* BaseCache.hits of the RedisCache
    rmisses,    \* BaseCache.misses of the RedisCache
    roptions,   \* BaseCache.options of the RedisCache
    rstatus,    \* RedisCache.redis.status
    rwritten,   \* history: full key -> the last set of it on the Redis server
    backends,   \* CacheRegistry.backends: kind -> instance
    defaultBackend, \* CacheRegistry.defaultBackend
    pending,    \* the deleteByPattern of the MemoryCache suspended at an await
    scan        \* the scan loop of the RedisCache suspended at an await

redisVars == <<rstore, rhits, rmisses, roptions, rstatus, rwritten>>

registryVars == <<backends, defaultBackend>>

procVars == <<pending, scan>>

vars == <<store, order, now, hits, misses, options, lruMax, lruTtl, scopes,
          last, disposed, written, redisVars, registryVars, procVars>>

-----------------------------------------------------------------------------
(* Bounds of the model *)

\* the clock runs from 1 to MaxTime
MaxTime == 3
\* at most MaxOps counted get calls between two counter resets
MaxOps == 1
\* a MemoryCache is constructed with maxSize MaxSize + 1 (or MaxSize + 2)
MaxSize == 1

(* Program constants *)

\* createLRUCache: the max used when maxSize is 0 or undefined
DefaultMax == 1000

\* JavaScript's undefined, as a value and as an omitted ttl argument
None == "undefined"
NoTtl == -1

Values == {"v1", "v2"}
KeyA == <<"a">>
KeyB == <<"b">>
KeyC == <<"c">>
Empty == <<>>
PrefixA == <<"a">>
PrefixAB == <<"a", "b">>
Star == <<"*">>
ScopeIds == {"s1", "s2"}
Mem == "mem"

-----------------------------------------------------------------------------
(* Strings *)

\* String.prototype.startsWith
StartsWith(s, p) ==
    /\ Len(p) <= Len(s)
    /\ SubSeq(s, 1, Len(p)) = p

\* the characters the `.` of a JavaScript RegExp does not match
LineTerminators == {"\n"}

\* the RegExp built by MemoryCache.getKeys, tested on a key: the pattern
\* anchored at both ends, every `*` replaced by `.*`, which matches any run of
\* characters other than line terminators
RECURSIVE GlobMatch(_, _)
GlobMatch(pat, s) ==
    IF pat = <<>> THEN s = <<>>
    ELSE IF Head(pat) = "*"
         THEN \/ GlobMatch(Tail(pat), s)
              \/ /\ s # <<>>
                 /\ Head(s) \notin LineTerminators
                 /\ GlobMatch(pat, Tail(s))
         ELSE /\ s # <<>>
              /\ Head(s) = Head(pat)
              /\ GlobMatch(Tail(pat), Tail(s))

\* `${prefix}:${key}` when the prefix is non-empty, the key otherwise
WithPrefix(prefix, key) ==
    IF prefix # <<>> THEN prefix \o <<":">> \o key ELSE key

\* BaseCache.buildKey
buildKey(key) == WithPrefix(options.prefix, key)

\* ScopedCache.applyPrefix
applyPrefix(s, key) == WithPrefix(scopes[s].prefix, key)

-----------------------------------------------------------------------------
(* The lru-cache store, as MemoryCache.createLRUCache configures it:       *)
(* max, ttl, updateAgeOnGet, ttlAutopurge, allowStale: false               *)

\* a sequence without the element x
Without(seq, x) == SelectSeq(seq, LAMBDA y : y # x)

\* a function without the key x
Drop(f, x) == [y \in DOMAIN f \ {x} |-> f[y]]

\* a function with f[x] = e
Put(f, x, e) == [y \in DOMAIN f \cup {x} |-> IF y = x THEN e ELSE f[y]]

\* an LRUCache is the pair of its entries and its recency list
Lru(st, ord) == [store |-> st, order |-> ord]

\* LRUCache isStale: an entry with a ttl is stale once more than ttl has passed
IsStaleAt(e, t) == e.ttl # 0 /\ e.start # 0 /\ t - e.start > e.ttl

IsStale(c, k) == IsStaleAt(c.store[k], now)

\* LRUCache.delete
LruDelete(c, k) ==
    IF k \in DOMAIN c.store
    THEN Lru(Drop(c.store, k), Without(c.order, k))
    ELSE c

\* LRUCache.set as it would be if an existing entry kept its value
LruSetKeepsValue(c, k, v, ttl) ==
    LET old == IF k \in DOMAIN c.store THEN c.store[k].value ELSE v
        e == [value |-> old, start |-> IF ttl # 0 THEN now ELSE 0, ttl |-> ttl]
        room == IF k \notin DOMAIN c.store /\ Len(c.order) >= lruMax
                THEN LruDelete(c, Head(c.order))
                ELSE c
    IN Lru(Put(room.store, k, e), Append(Without(room.order, k), k))

\* LRUCache.set: a new key evicts the least recently used entry when the
\* store is full; the entry becomes the most recently used one and its age
\* starts now
LruSet(c, k, v, ttl) ==
    LET e == [value |-> v, start |-> IF ttl # 0 THEN now ELSE 0, ttl |-> ttl]
        room == IF k \notin DOMAIN c.store /\ Len(c.order) >= lruMax
                THEN LruDelete(c, Head(c.order))
                ELSE c
    IN Lru(Put(room.store, k, e), Append(Without(room.order, k), k))

\* LRUCache.get, the value returned: undefined for a missing or a stale entry
LruGetValue(c, k) ==
    IF k \in DOMAIN c.store /\ ~IsStale(c, k) THEN c.store[k].value ELSE None

\* LRUCache.get, the store afterwards: a stale entry is deleted, a live one
\* becomes the most recently used and (updateAgeOnGet) its age restarts
LruGet(c, k) ==
    IF k \notin DOMAIN c.store THEN c
    ELSE IF IsStale(c, k) THEN LruDelete(c, k)
    ELSE LET e == c.store[k]
             e2 == [e EXCEPT !.start = IF e.ttl # 0 THEN now ELSE 0]
         IN Lru(Put(c.store, k, e2), Append(Without(c.order, k), k))

\* LRUCache.has as it would be with allowStale: true
LruHasAllowStale(c, k) == k \in DOMAIN c.store

\* LRUCache.has: neither recency nor age changes
LruHas(c, k) == k \in DOMAIN c.store /\ ~IsStale(c, k)

\* LRUCache.keys(): most recently used first, stale entries skipped
RECURSIVE LruKeysFrom(_, _)
LruKeysFrom(c, ord) ==
    IF ord = <<>> THEN <<>>
    ELSE LET k == ord[Len(ord)]
             rest == LruKeysFrom(c, SubSeq(ord, 1, Len(ord) - 1))
         IN IF IsStale(c, k) THEN rest ELSE <<k>> \o rest

LruKeys(c) == LruKeysFrom(c, c.order)

\* LRUCache.size: every stored entry, stale ones included
LruSize(c) == Len(c.order)

\* LRUCache.clear
LruClear == Lru(<<>>, <<>>)

\* the store of the current state
Cur == Lru(store, order)

\* delete each key of a list, in order
RECURSIVE LruDeleteAll(_, _)
LruDeleteAll(c, ks) ==
    IF ks = <<>> THEN c ELSE LruDeleteAll(LruDelete(c, Head(ks)), Tail(ks))

Range(seq) == {seq[i] : i \in DOMAIN seq}

-----------------------------------------------------------------------------
(* BaseCache and MemoryCache, on a store c *)

DefaultTtl == 300000
DefaultMaxSize == 1000

\* An options object is a record of the fields that hold a value; the names
\* of the fields it holds as undefined are listed under "undefined".
Undefined(o) == IF "undefined" \in DOMAIN o THEN o["undefined"] ELSE {}

\* the fields of an options object that read as a value
Defined(o) == (DOMAIN o \ {"undefined"}) \ Undefined(o)

\* o.f ?? d, for an options object o that may lack the field f or hold it as
\* undefined
Nullish(o, f, d) == IF f \in Defined(o) THEN o[f] ELSE d

\* { ...a, ...b } and Object.assign(a, b) of options objects: a field that b
\* holds as undefined is undefined in the result, where it is left out
Assign(a, b) ==
    [f \in (Defined(a) \ Undefined(b)) \cup Defined(b) |->
        IF f \in Defined(b) THEN b[f] ELSE a[f]]

\* { ...a, ...b }
Merge(a, b) ==
    [f \in DOMAIN a \cup DOMAIN b |-> IF f \in DOMAIN b THEN b[f] ELSE a[f]]

\* BaseCache.normalizeOptions
normalizeOptions(o) ==
    [ttl     |-> Nullish(o, "ttl", DefaultTtl),
     maxSize |-> Nullish(o, "maxSize", DefaultMaxSize),
     prefix  |-> Nullish(o, "prefix", Empty),
     enabled |-> Nullish(o, "enabled", TRUE)]

\* MemoryCache.createLRUCache: the max of the store
createLRUCacheMax(o) == IF o.maxSize = 0 THEN DefaultMax ELSE o.maxSize

\* MemoryCache.get as it would be without the check of options.enabled
memGetValueAlways(c, key) == LruGetValue(c, buildKey(key))

\* MemoryCache.get: the value returned
memGetValue(c, key) ==
    IF ~options.enabled THEN None ELSE LruGetValue(c, buildKey(key))

\* MemoryCache.get: the store afterwards
memGet(c, key) ==
    IF ~options.enabled THEN c ELSE LruGet(c, buildKey(key))

\* MemoryCache.set as it would be if it passed no ttl to the store
memSetDefaultTtl(c, key, v, ttl) ==
    IF ~options.enabled THEN c ELSE LruSet(c, buildKey(key), v, lruTtl)

\* MemoryCache.set
memSet(c, key, v, ttl) ==
    IF ~options.enabled THEN c
    ELSE LruSet(c, buildKey(key), v, IF ttl # NoTtl THEN ttl ELSE lruTtl)

\* MemoryCache.delete: the store afterwards, and the boolean returned
memDelete(c, key) == LruDelete(c, buildKey(key))

memDeleteResult(c, key) == buildKey(key) \in DOMAIN c.store

\* MemoryCache.has
memHas(c, key) == LruHas(c, buildKey(key))

\* MemoryCache.getKeys: the keys of the store the pattern matches
RECURSIVE MatchingKeys(_, _)
MatchingKeys(ks, pattern) ==
    IF ks = <<>> THEN <<>>
    ELSE IF GlobMatch(pattern, Head(ks))
         THEN <<Head(ks)>> \o MatchingKeys(Tail(ks), pattern)
         ELSE MatchingKeys(Tail(ks), pattern)

getKeys(c, pattern) == MatchingKeys(LruKeys(c), pattern)

\* BaseCache.deleteByPattern as it would be if the loop ended after the
\* first key
memDeleteFirstOnly(c, ks) ==
    IF ks = <<>> THEN c ELSE memDelete(c, Head(ks))

\* BaseCache.deleteByPattern: this.delete(key) for each key of getKeys
RECURSIVE memDeleteEach(_, _)
memDeleteEach(c, ks) ==
    IF ks = <<>> THEN c ELSE memDeleteEach(memDelete(c, Head(ks)), Tail(ks))

deleteByPattern(c, pattern) == memDeleteEach(c, getKeys(c, pattern))

\* BaseCache.deleteByPrefix
deleteByPrefix(c, prefix) == deleteByPattern(c, prefix \o Star)

\* MemoryCache.clearByPrefix: the keys that start with buildKey(prefix)
RECURSIVE KeysStartingWith(_, _)
KeysStartingWith(ks, p) ==
    IF ks = <<>> THEN <<>>
    ELSE IF StartsWith(Head(ks), p)
         THEN <<Head(ks)>> \o KeysStartingWith(Tail(ks), p)
         ELSE KeysStartingWith(Tail(ks), p)

clearByPrefix(c) ==
    LruDeleteAll(c, KeysStartingWith(LruKeys(c), buildKey(options.prefix)))

\* MemoryCache.evictExcessEntries: the first size - newMaxSize keys of keys()
evictExcessEntries(c, newMaxSize) ==
    LET toRemove == LruSize(c) - newMaxSize
        ks == LruKeys(c)
        n == IF toRemove < Len(ks) THEN toRemove ELSE Len(ks)
    IN IF toRemove <= 0 THEN c ELSE LruDeleteAll(c, SubSeq(ks, 1, n))

\* MemoryCache.onOptionsChanged
onOptionsChanged(c, old, new) ==
    IF new.maxSize < old.maxSize /\ LruSize(c) > new.maxSize
    THEN evictExcessEntries(c, new.maxSize)
    ELSE c

-----------------------------------------------------------------------------
(* ScopedCache s over the MemoryCache, on a store c *)

\* ScopedCache constructor: the options of the scope
ScopedCacheOptions(o, backendOpts) ==
    [ttl     |-> Nullish(o, "ttl", backendOpts.ttl),
     prefix  |-> Nullish(o, "prefix", Empty),
     maxSize |-> backendOpts.maxSize,
     enabled |-> Nullish(o, "enabled", backendOpts.enabled)]

\* ScopedCache.get: the value returned, and the store afterwards
scopedGetValue(c, s, key) ==
    IF ~scopes[s].enabled THEN None ELSE memGetValue(c, applyPrefix(s, key))

scopedGet(c, s, key) ==
    IF ~scopes[s].enabled THEN c ELSE memGet(c, applyPrefix(s, key))

\* ScopedCache.set
scopedSet(c, s, key, v, ttl) ==
    IF ~scopes[s].enabled THEN c
    ELSE memSet(c, applyPrefix(s, key), v,
                IF ttl # NoTtl THEN ttl ELSE scopes[s].ttl)

\* ScopedCache.delete
scopedDelete(c, s, key) == memDelete(c, applyPrefix(s, key))

scopedDeleteResult(c, s, key) == memDeleteResult(c, applyPrefix(s, key))

\* ScopedCache.has
scopedHas(c, s, key) == memHas(c, applyPrefix(s, key))

\* ScopedCache.getKeys
scopedGetKeys(c, s, pattern) == getKeys(c, applyPrefix(s, pattern))

\* ScopedCache.size
scopedSize(c, s) == Len(scopedGetKeys(c, s, Star))

\* ScopedCache.clear and ScopedCache.clearByPrefix
scopedClear(c, s) == deleteByPrefix(c, scopes[s].prefix)

-----------------------------------------------------------------------------
(* RedisCache, on the keys r of the Redis server.  A call of the client    *)
(* either reaches the server or fails (the connection is down during the   *)
(* operation); a failed call leaves the server unchanged.                  *)

Redis == "redis"

\* BaseCache.buildKey of the RedisCache
rBuildKey(key) == WithPrefix(roptions.prefix, key)

\* stringify(value) || '': the JSON text of a string value, '' for undefined
Serialize(v) == IF v = None THEN <<>> ELSE <<"\"", v, "\"">>

\* JSON.parse: whether it throws on the text, and the value it returns
ParseFails(raw) == ~(Len(raw) = 3 /\ raw[1] = "\"" /\ raw[3] = "\"")

JsonParse(raw) == raw[2]

\* the server's view of a key with PX: expired once the time is past expireAt
IsExpired(r, k) == r[k].expireAt # 0 /\ now > r[k].expireAt

\* the keys the server answers for
Live(r) == {k \in DOMAIN r : ~IsExpired(r, k)}

\* the MATCH of SCAN: `*` any run of characters, `?` any one character
RECURSIVE RedisGlobMatch(_, _)
RedisGlobMatch(pat, s) ==
    IF pat = <<>> THEN s = <<>>
    ELSE IF Head(pat) = "*"
         THEN \/ RedisGlobMatch(Tail(pat), s)
              \/ (s # <<>> /\ RedisGlobMatch(pat, Tail(s)))
         ELSE /\ s # <<>>
              /\ (Head(pat) = "?" \/ Head(s) = Head(pat))
              /\ RedisGlobMatch(Tail(pat), Tail(s))

\* the keys a completed SCAN loop collects
Scan(r, pattern) == {k \in Live(r) : RedisGlobMatch(pattern, k)}

\* pattern.replace(/^\*/, '')
StripLeadingStar(pattern) ==
    IF pattern # <<>> /\ Head(pattern) = "*" THEN Tail(pattern) ELSE pattern

\* RedisCache.get: the value returned
redisGetValue(r, key, failed) ==
    LET k == rBuildKey(key)
    IN IF ~roptions.enabled THEN None
       ELSE IF failed THEN None
       ELSE IF k \notin Live(r) THEN None
       ELSE IF ParseFails(r[k].raw) THEN None
       ELSE JsonParse(r[k].raw)

\* RedisCache.get: whether incrementHit is called (incrementMiss otherwise)
redisGetHit(r, key, failed) ==
    LET k == rBuildKey(key)
    IN /\ roptions.enabled
       /\ ~failed
       /\ k \in Live(r)
       /\ ~ParseFails(r[k].raw)

\* RedisCache.set: SET with PX when the final ttl is positive, plain SET
\* otherwise
redisSet(r, key, v, ttl, failed) ==
    LET finalTtl == IF ttl # NoTtl THEN ttl ELSE roptions.ttl
        e == [raw |-> Serialize(v),
              expireAt |-> IF finalTtl > 0 THEN now + finalTtl ELSE 0]
    IN IF ~roptions.enabled \/ failed THEN r ELSE Put(r, rBuildKey(key), e)

\* RedisCache.delete
redisDelete(r, key, failed) ==
    IF failed THEN r ELSE Drop(r, rBuildKey(key))

redisDeleteResult(r, key, failed) == ~failed /\ rBuildKey(key) \in Live(r)

\* RedisCache.has as it would be if a failed call still answered
redisHasDespiteFailure(r, key, failed) == rBuildKey(key) \in Live(r)

\* RedisCache.has
redisHas(r, key, failed) == ~failed /\ rBuildKey(key) \in Live(r)

\* RedisCache.getKeys
redisGetKeys(r, pattern, failed) ==
    IF failed THEN {}
    ELSE Scan(r, rBuildKey(Empty) \o StripLeadingStar(pattern))

\* BaseCache.deleteByPattern on the RedisCache: this.delete(key) for each key
\* of getKeys
redisDeleteByPattern(r, pattern, failed) ==
    LET targets == {rBuildKey(k) : k \in redisGetKeys(r, pattern, failed)}
    IN [k \in DOMAIN r \ targets |-> r[k]]

\* RedisCache.clearByPrefix
redisClearByPrefix(r, failed) ==
    IF failed THEN r
    ELSE [k \in DOMAIN r \ Scan(r, rBuildKey(Empty) \o Star) |-> r[k]]

\* RedisCache.size
redisSize(r, failed) ==
    IF failed THEN 0 ELSE Cardinality(Scan(r, rBuildKey(Empty) \o Star))

\* BaseCache.getOptions and ScopedCache.getOptions: a copy of the options
getOptions(h) ==
    IF h = Redis THEN roptions ELSE IF h = Mem THEN options ELSE scopes[h]

\* BaseCache.getStats, which ScopedCache.getStats passes on: the counters a
\* handle reports
getStats(h) ==
    IF h = Redis THEN [hits |-> rhits, misses |-> rmisses]
    ELSE [hits |-> hits, misses |-> misses]

-----------------------------------------------------------------------------
(* Calls suspended at an await *)

\* no deleteByPattern of the MemoryCache is in progress
NoPending ==
    [active |-> FALSE, pattern |-> <<>>, keys |-> <<>>, seen |-> <<>>,
     removed |-> <<>>]

\* no scan loop of the RedisCache is in progress
NoScan ==
    [op |-> None, pc |-> "idle", pattern |-> <<>>, cursor |-> 0, batch |-> {},
     keys |-> {}, count |-> 0, asked |-> <<>>, got |-> <<>>, seen |-> {},
     late |-> {}]

\* no call is suspended at an await
Idle ==
    /\ pending = NoPending
    /\ scan = NoScan

-----------------------------------------------------------------------------
(* History *)

\* the full key a handle stores a caller's key under
FullKey(h, key) ==
    IF h = Mem THEN buildKey(key) ELSE buildKey(applyPrefix(h, key))

\* whether set and get act on the store when called through a handle
Enabled(h) ==
    IF h = Mem THEN options.enabled ELSE scopes[h].enabled /\ options.enabled

\* the ttl a set through a handle asks for
AskedTtl(h, ttl) ==
    IF ttl # NoTtl THEN ttl ELSE IF h = Mem THEN lruTtl ELSE scopes[h].ttl

\* written after a call that left the store as c: the entries removed by the
\* call are forgotten
Forget(c) ==
    [k \in DOMAIN written \ (DOMAIN store \ DOMAIN c.store) |-> written[k]]

\* written after set(key, v, ttl) through the handle h
Wrote(c, h, key, v, ttl) ==
    IF Enabled(h)
    THEN Put(Forget(c), FullKey(h, key),
             [value |-> v, at |-> now, ttl |-> AskedTtl(h, ttl), read |-> FALSE,
              by |-> h, explicit |-> ttl # NoTtl])
    ELSE Forget(c)

\* written after get(key) through the handle h
Read(c, h, key) ==
    LET w == Forget(c)
        k == FullKey(h, key)
    IN IF Enabled(h) /\ k \in DOMAIN w
       THEN [w EXCEPT ![k].read = TRUE]
       ELSE w

Call(op, h, key, res) == [op |-> op, h |-> h, key |-> key, res |-> res]

\* whether a dispose() of the handle h follows a dispose() of the same handle
Again(h) == [again |-> last.op = "dispose" /\ last.h = h]

\* the store becomes c
Becomes(c) ==
    /\ store' = c.store
    /\ order' = c.order

-----------------------------------------------------------------------------
(* Operations of the MemoryCache *)

\* MemoryCache.get: a hit or a miss is counted; at most cap counted calls
\* between two resets of the counters
MemGetWithin(key, cap) ==
    /\ hits + misses < cap
    /\ LET res == memGetValue(Cur, key)
           c == memGet(Cur, key)
       IN /\ Becomes(c)
          /\ hits' = IF res # None THEN hits + 1 ELSE hits
          /\ misses' = IF res = None THEN misses + 1 ELSE misses
          /\ last' = Call("get", Mem, key, res)
          /\ written' = Read(c, Mem, key)
    /\ UNCHANGED <<now, options, lruMax, lruTtl, scopes, disposed,
                   redisVars, registryVars, procVars>>

MemGet(key) == MemGetWithin(key, MaxOps)

\* MemoryCache.set
MemSet(key, v, ttl) ==
    /\ LET c == memSet(Cur, key, v, ttl)
       IN /\ Becomes(c)
          /\ written' = Wrote(c, Mem, key, v, ttl)
    /\ last' = Call("set", Mem, key, None)
    /\ UNCHANGED <<now, hits, misses, options, lruMax, lruTtl, scopes, disposed,
                   redisVars, registryVars, procVars>>

\* MemoryCache.delete
MemDelete(key) ==
    /\ LET c == memDelete(Cur, key)
       IN /\ Becomes(c)
          /\ written' = Forget(c)
    /\ last' = Call("delete", Mem, key, memDeleteResult(Cur, key))
    /\ UNCHANGED <<now, hits, misses, options, lruMax, lruTtl, scopes, disposed,
                   redisVars, registryVars, procVars>>

\* MemoryCache.has
MemHas(key) ==
    /\ last' = Call("has", Mem, key, memHas(Cur, key))
    /\ UNCHANGED <<store, order, now, hits, misses, options, lruMax, lruTtl,
                   scopes, disposed, written,
                   redisVars, registryVars, procVars>>

\* MemoryCache.getKeys
MemGetKeys(pattern) ==
    /\ last' = Call("getKeys", Mem, pattern, getKeys(Cur, pattern))
    /\ UNCHANGED <<store, order, now, hits, misses, options, lruMax, lruTtl,
                   scopes, disposed, written,
                   redisVars, registryVars, procVars>>

\* BaseCache.deleteByPattern
MemDeleteByPattern(pattern) ==
    /\ LET c == deleteByPattern(Cur, pattern)
       IN /\ Becomes(c)
          /\ written' = Forget(c)
    /\ last' = Call("deleteByPattern", Mem, pattern, None)
    /\ UNCHANGED <<now, hits, misses, options, lruMax, lruTtl, scopes, disposed,
                   redisVars, registryVars, procVars>>

\* BaseCache.deleteByPrefix
MemDeleteByPrefix(prefix) ==
    /\ LET c == deleteByPrefix(Cur, prefix)
       IN /\ Becomes(c)
          /\ written' = Forget(c)
    /\ last' = Call("deleteByPrefix", Mem, prefix, None)
    /\ UNCHANGED <<now, hits, misses, options, lruMax, lruTtl, scopes, disposed,
                   redisVars, registryVars, procVars>>

\* MemoryCache.clearByPrefix
MemClearByPrefix ==
    /\ LET c == clearByPrefix(Cur)
       IN /\ Becomes(c)
          /\ written' = Forget(c)
    /\ last' = Call("clearByPrefix", Mem, Empty, None)
    /\ UNCHANGED <<now, hits, misses, options, lruMax, lruTtl, scopes, disposed,
                   redisVars, registryVars, procVars>>

\* BaseCache.clear: clearByPrefix, then the counters are reset
MemClear ==
    /\ LET c == clearByPrefix(Cur)
       IN /\ Becomes(c)
          /\ written' = Forget(c)
    /\ hits' = 0
    /\ misses' = 0
    /\ last' = Call("clear", Mem, Empty, None)
    /\ UNCHANGED <<now, options, lruMax, lruTtl, scopes, disposed,
                   redisVars, registryVars, procVars>>

\* MemoryCache.disconnect and dispose: BaseCache.disconnect (clear, counters
\* reset), then the store is cleared
MemDispose ==
    /\ LET cleared == clearByPrefix(Cur)
           c == LruClear
       IN /\ Becomes(c)
          /\ written' = Forget(c)
    /\ hits' = 0
    /\ misses' = 0
    /\ disposed' = disposed \cup {Mem}
    /\ last' = Merge(Call("dispose", Mem, Empty, None), Again(Mem))
    /\ UNCHANGED <<now, options, lruMax, lruTtl, scopes,
                   redisVars, registryVars, procVars>>

\* BaseCache.setOptions with MemoryCache.onOptionsChanged
MemSetOptions(o) ==
    /\ LET new == normalizeOptions(Assign(options, o))
           c == onOptionsChanged(Cur, options, new)
       IN /\ options' = new
          /\ Becomes(c)
          /\ written' = Forget(c)
    /\ last' = Call("setOptions", Mem, Empty, None)
    /\ UNCHANGED <<now, hits, misses, lruMax, lruTtl, scopes, disposed,
                   redisVars, registryVars, procVars>>

-----------------------------------------------------------------------------
(* Operations of a ScopedCache *)

\* ScopedCache.get
ScopedGet(s, key) ==
    /\ scopes[s].enabled => hits + misses < MaxOps
    /\ LET res == scopedGetValue(Cur, s, key)
           c == scopedGet(Cur, s, key)
           counted == scopes[s].enabled
       IN /\ Becomes(c)
          /\ hits' = IF counted /\ res # None THEN hits + 1 ELSE hits
          /\ misses' = IF counted /\ res = None THEN misses + 1 ELSE misses
          /\ last' = Call("get", s, key, res)
          /\ written' = Read(c, s, key)
    /\ UNCHANGED <<now, options, lruMax, lruTtl, scopes, disposed,
                   redisVars, registryVars, procVars>>

\* ScopedCache.set
ScopedSet(s, key, v, ttl) ==
    /\ LET c == scopedSet(Cur, s, key, v, ttl)
       IN /\ Becomes(c)
          /\ written' = Wrote(c, s, key, v, ttl)
    /\ last' = Call("set", s, key, None)
    /\ UNCHANGED <<now, hits, misses, options, lruMax, lruTtl, scopes, disposed,
                   redisVars, registryVars, procVars>>

\* ScopedCache.delete
ScopedDelete(s, key) ==
    /\ LET c == scopedDelete(Cur, s, key)
       IN /\ Becomes(c)
          /\ written' = Forget(c)
    /\ last' = Call("delete", s, key, scopedDeleteResult(Cur, s, key))
    /\ UNCHANGED <<now, hits, misses, options, lruMax, lruTtl, scopes, disposed,
                   redisVars, registryVars, procVars>>

\* ScopedCache.has
ScopedHas(s, key) ==
    /\ last' = Call("has", s, key, scopedHas(Cur, s, key))
    /\ UNCHANGED <<store, order, now, hits, misses, options, lruMax, lruTtl,
                   scopes, disposed, written,
                   redisVars, registryVars, procVars>>

\* ScopedCache.getKeys
ScopedGetKeys(s, pattern) ==
    /\ last' = Call("getKeys", s, pattern, scopedGetKeys(Cur, s, pattern))
    /\ UNCHANGED <<store, order, now, hits, misses, options, lruMax, lruTtl,
                   scopes, disposed, written,
                   redisVars, registryVars, procVars>>

\* ScopedCache.size
ScopedSize(s) ==
    /\ last' = Call("size", s, Empty, scopedSize(Cur, s))
    /\ UNCHANGED <<store, order, now, hits, misses, options, lruMax, lruTtl,
                   scopes, disposed, written,
                   redisVars, registryVars, procVars>>

\* ScopedCache.clear and ScopedCache.clearByPrefix
ScopedClear(s) ==
    /\ LET c == scopedClear(Cur, s)
       IN /\ Becomes(c)
          /\ written' = Forget(c)
    /\ last' = Call("clear", s, Empty, None)
    /\ UNCHANGED <<now, hits, misses, options, lruMax, lruTtl, scopes, disposed,
                   redisVars, registryVars, procVars>>

\* ScopedCache.disconnect and dispose: clear
ScopedDispose(s) ==
    /\ LET c == scopedClear(Cur, s)
       IN /\ Becomes(c)
          /\ written' = Forget(c)
    /\ disposed' = disposed \cup {s}
    /\ last' = Merge(Call("dispose", s, Empty, None), Again(s))
    /\ UNCHANGED <<now, hits, misses, options, lruMax, lruTtl, scopes,
                   redisVars, registryVars, procVars>>

\* one options object shared by every scope
scopedSetOptionsShared(all, s, o) == [t \in DOMAIN all |-> Assign(all[t], o)]

\* Object.assign(this.options, options): each scope holds an options object of
\* its own, built by its constructor
scopedSetOptions(all, s, o) == [all EXCEPT ![s] = Assign(all[s], o)]

\* new ScopedCache(backend, o), as getScoped and getScopedOrDefault make it:
\* the handle s is a scope newly built over the MemoryCache
NewScopedCache(s, o) ==
    /\ scopes' = [scopes EXCEPT ![s] = ScopedCacheOptions(o, getOptions(Mem))]
    /\ disposed' = disposed \ {s}
    /\ last' = Call("new", s, Empty, None)
    /\ UNCHANGED <<store, order, now, hits, misses, options, lruMax, lruTtl,
                   written,
                   redisVars, registryVars, procVars>>

\* ScopedCache.setOptions: Object.assign on the scope's options
ScopedSetOptions(s, o) ==
    /\ scopes' = scopedSetOptions(scopes, s, o)
    /\ last' = Call("setOptions", s, Empty, None)
    /\ UNCHANGED <<store, order, now, hits, misses, options, lruMax, lruTtl,
                   disposed, written,
                   redisVars, registryVars, procVars>>

-----------------------------------------------------------------------------
(* Operations of the RedisCache.  `down` is whether the connection is down  *)
(* during the operation; on a closed client every call fails.              *)

NoError == "none"

\* a completed call that may have raised: err is the error thrown, if any
CallErr(op, h, key, res, failed, err) ==
    [op |-> op, h |-> h, key |-> key, res |-> res, failed |-> failed,
     err |-> err]

\* whether the calls of the client fail during an operation
Fails(down) == down \/ rstatus # "ready"

\* the Redis server's keys become r
RedisBecomes(r) ==
    /\ rstore' = r
    /\ rwritten' = [k \in DOMAIN rwritten \cap DOMAIN r |-> rwritten[k]]

\* RedisCache.get: every path counts a hit or a miss, every error is caught
RedisGet(key, down) ==
    /\ rhits + rmisses < MaxOps
    /\ LET failed == Fails(down)
           hit == redisGetHit(rstore, key, failed)
       IN /\ rhits' = IF hit THEN rhits + 1 ELSE rhits
          /\ rmisses' = IF hit THEN rmisses ELSE rmisses + 1
          /\ last' = CallErr("get", Redis, key,
                             redisGetValue(rstore, key, failed), failed, NoError)
    /\ UNCHANGED <<store, order, now, hits, misses, options, lruMax, lruTtl,
                   scopes, disposed, written, rstore, roptions, rstatus,
                   rwritten, registryVars, procVars>>

\* history: the key k is written while a scan loop is in progress
noteWrite(sc, k, wrote) ==
    IF sc.op # None /\ wrote THEN [sc EXCEPT !.late = @ \cup {k}] ELSE sc

\* RedisCache.set
RedisSet(key, v, ttl, down) ==
    /\ LET failed == Fails(down)
           r == redisSet(rstore, key, v, ttl, failed)
       IN /\ rstore' = r
          /\ rwritten' =
                IF roptions.enabled /\ ~failed
                THEN Put(rwritten, rBuildKey(key),
                         [value |-> v, at |-> now,
                          ttl |-> IF ttl # NoTtl THEN ttl ELSE roptions.ttl,
                          explicit |-> ttl # NoTtl])
                ELSE rwritten
          /\ last' = CallErr("set", Redis, key, None, failed, NoError)
          /\ scan' = noteWrite(scan, rBuildKey(key),
                               roptions.enabled /\ ~failed)
    /\ UNCHANGED <<store, order, now, hits, misses, options, lruMax, lruTtl,
                   scopes, disposed, written, rhits, rmisses, roptions, rstatus,
                   registryVars, pending>>

\* RedisCache.delete
RedisDelete(key, down) ==
    /\ LET failed == Fails(down)
       IN /\ RedisBecomes(redisDelete(rstore, key, failed))
          /\ last' = CallErr("delete", Redis, key,
                             redisDeleteResult(rstore, key, failed), failed,
                             NoError)
    /\ UNCHANGED <<store, order, now, hits, misses, options, lruMax, lruTtl,
                   scopes, disposed, written, rhits, rmisses, roptions, rstatus,
                   registryVars, procVars>>

\* RedisCache.has
RedisHas(key, down) ==
    /\ last' = CallErr("has", Redis, key, redisHas(rstore, key, Fails(down)),
                       Fails(down), NoError)
    /\ UNCHANGED <<store, order, now, hits, misses, options, lruMax, lruTtl,
                   scopes, disposed, written, redisVars, registryVars,
                   procVars>>

\* RedisCache.getKeys
RedisGetKeys(pattern, down) ==
    /\ last' = CallErr("getKeys", Redis, pattern,
                       redisGetKeys(rstore, pattern, Fails(down)), Fails(down),
                       NoError)
    /\ UNCHANGED <<store, order, now, hits, misses, options, lruMax, lruTtl,
                   scopes, disposed, written, redisVars, registryVars,
                   procVars>>

\* RedisCache.size
RedisSize(down) ==
    /\ last' = CallErr("size", Redis, Empty, redisSize(rstore, Fails(down)),
                       Fails(down), NoError)
    /\ UNCHANGED <<store, order, now, hits, misses, options, lruMax, lruTtl,
                   scopes, disposed, written, redisVars, registryVars,
                   procVars>>

\* BaseCache.deleteByPattern on the RedisCache
RedisDeleteByPattern(pattern, down) ==
    /\ LET failed == Fails(down)
       IN /\ RedisBecomes(redisDeleteByPattern(rstore, pattern, failed))
          /\ last' = CallErr("deleteByPattern", Redis, pattern, None, failed,
                             NoError)
    /\ UNCHANGED <<store, order, now, hits, misses, options, lruMax, lruTtl,
                   scopes, disposed, written, rhits, rmisses, roptions, rstatus,
                   registryVars, procVars>>

\* RedisCache.clearByPrefix
RedisClearByPrefix(down) ==
    /\ LET failed == Fails(down)
       IN /\ RedisBecomes(redisClearByPrefix(rstore, failed))
          /\ last' = CallErr("clearByPrefix", Redis, Empty, None, failed,
                             NoError)
    /\ UNCHANGED <<store, order, now, hits, misses, options, lruMax, lruTtl,
                   scopes, disposed, written, rhits, rmisses, roptions, rstatus,
                   registryVars, procVars>>

\* BaseCache.clear on the RedisCache: clearByPrefix, then the counters are
\* reset
RedisClear(down) ==
    /\ LET failed == Fails(down)
       IN /\ RedisBecomes(redisClearByPrefix(rstore, failed))
          /\ last' = CallErr("clear", Redis, Empty, None, failed, NoError)
    /\ rhits' = 0
    /\ rmisses' = 0
    /\ UNCHANGED <<store, order, now, hits, misses, options, lruMax, lruTtl,
                   scopes, disposed, written, roptions, rstatus, registryVars,
                   procVars>>

\* quit() issued whatever the status of the client
redisQuitAlways(status) == TRUE

\* RedisCache.disconnect: whether quit() is issued, which is when the status
\* of the client is neither 'end' nor 'close'
redisQuitIssued(status) == status # "end" /\ status # "close"

\* RedisCache.disconnect and dispose: BaseCache.disconnect (clear, counters
\* reset), then quit() on a client that is not closed, and disconnect() when
\* quit() fails: that client ends closed either way.  `quitFails` is whether
\* quit() rejects
RedisDisconnect(down, quitFails) ==
    /\ LET failed == Fails(down)
           quit == redisQuitIssued(rstatus)
       IN /\ RedisBecomes(redisClearByPrefix(rstore, failed))
          /\ last' = Merge(CallErr("dispose", Redis, Empty, None, failed,
                                   NoError),
                           Merge(Again(Redis),
                                 [quit |-> quit, quitFails |-> quitFails,
                                  forced |-> quit /\ quitFails]))
          /\ rstatus' = IF quit THEN "end" ELSE rstatus
    /\ rhits' = 0
    /\ rmisses' = 0
    /\ disposed' = disposed \cup {Redis}
    /\ UNCHANGED <<store, order, now, hits, misses, options, lruMax, lruTtl,
                   scopes, written, roptions, registryVars, procVars>>

\* dispose() of the RedisCache while the connection is up or down: on a
\* connection that is down quit() fails too
RedisDispose(down) == RedisDisconnect(down, down)

\* the connection of the client is lost: its socket has closed ('close'), or
\* the client waits to connect again ('reconnecting')
ConnectionLost(status) ==
    /\ rstatus = "ready"
    /\ rstatus' = status
    /\ last' = CallErr("lost", Redis, Empty, None, FALSE, NoError)
    /\ UNCHANGED <<store, order, now, hits, misses, options, lruMax, lruTtl,
                   scopes, disposed, written, rstore, rhits, rmisses, roptions,
                   rwritten, registryVars, procVars>>

\* BaseCache.setOptions on the RedisCache, which has no onOptionsChanged
RedisSetOptions(o) ==
    /\ roptions' = normalizeOptions(Assign(roptions, o))
    /\ last' = CallErr("setOptions", Redis, Empty, None, FALSE, NoError)
    /\ UNCHANGED <<store, order, now, hits, misses, options, lruMax, lruTtl,
                   scopes, disposed, written, rstore, rhits, rmisses, rstatus,
                   rwritten, registryVars, procVars>>

-----------------------------------------------------------------------------
(* BaseCache.deleteByPattern on the MemoryCache, one step for each stretch  *)
(* of it that runs without suspending: the keys are listed when it is       *)
(* called, each `await this.delete(key)` deletes one of them, and it        *)
(* returns after the last                                                   *)

\* const keys = await this.getKeys(pattern)
MemDeleteByPatternBegin(pattern) ==
    /\ ~pending.active
    /\ pending' = [active |-> TRUE, pattern |-> pattern,
                   keys |-> getKeys(Cur, pattern), seen |-> store,
                   removed |-> <<>>]
    /\ UNCHANGED <<store, order, now, hits, misses, options, lruMax, lruTtl,
                   scopes, last, disposed, written, redisVars, registryVars,
                   scan>>

\* await this.delete(key), for the next listed key; `removed` keeps the entry
\* the call deleted
MemDeleteByPatternStep ==
    /\ pending.active
    /\ pending.keys # <<>>
    /\ LET key == Head(pending.keys)
           k == buildKey(key)
           c == memDelete(Cur, key)
       IN /\ Becomes(c)
          /\ written' = Forget(c)
          /\ pending' = [pending EXCEPT
                            !.keys = Tail(@),
                            !.removed = IF k \in DOMAIN store
                                        THEN Put(@, k, store[k]) ELSE @]
    /\ UNCHANGED <<now, hits, misses, options, lruMax, lruTtl, scopes, last,
                   disposed, redisVars, registryVars, scan>>

\* deleteByPattern returns
MemDeleteByPatternEnd ==
    /\ pending.active
    /\ pending.keys = <<>>
    /\ pending' = NoPending
    /\ last' = Call("deleteByPattern", Mem, pending.pattern, None)
    /\ UNCHANGED <<store, order, now, hits, misses, options, lruMax, lruTtl,
                   scopes, disposed, written, redisVars, registryVars, scan>>

-----------------------------------------------------------------------------
(* The scan loops of RedisCache.clearByPrefix, size and getKeys, one step   *)
(* for each answer of the server.  The server walks its table slot by slot: *)
(* SCAN with a cursor returns the matching keys of one slot and the cursor  *)
(* of the next slot, 0 after the last.                                      *)

\* the slots of the server's table
NumSlots == 2

\* the slot of a key
Slot(k) == (Len(k) % NumSlots) + 1

\* redis.scan(cursor, 'MATCH', pattern, 'COUNT', 100): the batch and the
\* cursor returned
scanBatch(r, pattern, cursor) ==
    {k \in Scan(r, pattern) : Slot(k) = cursor + 1}

scanNext(cursor) == IF cursor + 1 < NumSlots THEN cursor + 1 ELSE 0

\* a loop that ends after its first pass
scanOnce(cursor) == FALSE

\* while (cursor !== '0')
scanContinues(cursor) == cursor # 0

\* redis.del(...keys) on nothing
redisDelNone(r, ks) == r

\* redis.del(...keys)
redisDel(r, ks) == [k \in DOMAIN r \ ks |-> r[k]]

\* the pattern the loop of an operation scans for
scanPattern(op, pattern) ==
    IF op = "getKeys" THEN rBuildKey(Empty) \o StripLeadingStar(pattern)
    ELSE rBuildKey(Empty) \o Star

\* the operation returns: after the loop, or from its catch block with
\* nothing collected
ScanReturns(sc, failed) ==
    /\ scan' = [sc EXCEPT !.op = None, !.pc = "idle"]
    /\ last' = Merge(CallErr(sc.op, Redis, Empty, None, failed, NoError),
                     [keys |-> IF failed THEN {} ELSE sc.keys,
                      count |-> IF failed THEN 0 ELSE sc.count,
                      cursors |-> sc.got])

\* clearByPrefix(), size() or getKeys(pattern) is called: let cursor = '0'.
\* History: `seen` is the matching keys on the server at that time
RedisScanBegin(op, pattern) ==
    /\ scan.op = None
    /\ scan' = [op |-> op, pc |-> "scan", pattern |-> scanPattern(op, pattern),
                cursor |-> 0, batch |-> {}, keys |-> {}, count |-> 0,
                asked |-> <<>>, got |-> <<>>,
                seen |-> Scan(rstore, scanPattern(op, pattern)),
                late |-> {}]
    /\ UNCHANGED <<store, order, now, hits, misses, options, lruMax, lruTtl,
                   scopes, last, disposed, written, redisVars, registryVars,
                   pending>>

\* await redis.scan(cursor, ...) is answered or fails; cursor = nextCursor;
\* size and getKeys collect the batch, clearByPrefix goes on to delete a
\* batch that is not empty; then the loop condition
RedisScanReply(down) ==
    /\ scan.pc = "scan"
    /\ LET batch == scanBatch(rstore, scan.pattern, scan.cursor)
           next == scanNext(scan.cursor)
           clears == scan.op = "clearByPrefix"
           sc == [scan EXCEPT
                     !.cursor = next,
                     !.asked = Append(@, scan.cursor),
                     !.got = Append(@, next),
                     !.batch = IF clears THEN batch ELSE {},
                     !.keys = IF clears THEN @ ELSE @ \cup batch,
                     !.count = IF clears THEN @ ELSE @ + Cardinality(batch)]
       IN IF Fails(down) THEN ScanReturns(scan, TRUE)
          ELSE IF clears /\ batch # {}
               THEN scan' = [sc EXCEPT !.pc = "del"] /\ UNCHANGED last
          ELSE IF scanContinues(next) THEN scan' = sc /\ UNCHANGED last
          ELSE ScanReturns(sc, FALSE)
    /\ UNCHANGED <<store, order, now, hits, misses, options, lruMax, lruTtl,
                   scopes, disposed, written, redisVars, registryVars,
                   pending>>

\* await redis.del(...keys) is answered or fails; then the loop condition
RedisScanDelete(down) ==
    /\ scan.pc = "del"
    /\ LET failed == Fails(down)
           sc == [scan EXCEPT !.pc = "scan", !.batch = {},
                              !.keys = @ \cup scan.batch]
       IN /\ RedisBecomes(IF failed THEN rstore
                          ELSE redisDel(rstore, scan.batch))
          /\ IF failed THEN ScanReturns(scan, TRUE)
             ELSE IF scanContinues(scan.cursor)
                  THEN scan' = sc /\ UNCHANGED last
             ELSE ScanReturns(sc, FALSE)
    /\ UNCHANGED <<store, order, now, hits, misses, options, lruMax, lruTtl,
                   scopes, disposed, written, rhits, rmisses, roptions, rstatus,
                   registryVars, pending>>

-----------------------------------------------------------------------------
(* CacheRegistry *)

Registry == "registry"

\* the cache instances handed to registerBackend, and the kind (backend) of
\* each
Instances == {"m1", "m2", "r1"}

Kind(i) == IF i = "r1" THEN "redis" ELSE "memory"

Kinds == {"memory", "redis"}

\* a registry that replaces the backend of a kind already registered
registerBackendOverwrites(b, cache) == Put(b, Kind(cache), cache)

\* CacheRegistry.registerBackend: a kind that is already registered is
\* skipped by a plain return, and the map of backends stays as it was
registerBackendMap(b, cache) ==
    IF Kind(cache) \in DOMAIN b THEN b ELSE Put(b, Kind(cache), cache)

RegisterBackend(cache, isDefault) ==
    /\ backends' = registerBackendMap(backends, cache)
    /\ defaultBackend' = IF Kind(cache) \notin DOMAIN backends /\ isDefault
                         THEN Kind(cache)
                         ELSE defaultBackend
    /\ last' = Merge(CallErr("registerBackend", Registry, cache, None, FALSE,
                             NoError), [isDefault |-> isDefault])
    /\ UNCHANGED <<store, order, now, hits, misses, options, lruMax, lruTtl,
                   scopes, disposed, written, redisVars, procVars>>

\* a getScoped that falls back to the default backend
getScopedFallsBack(name) ==
    IF name # None /\ name \in DOMAIN backends THEN backends[name]
    ELSE IF defaultBackend # None /\ defaultBackend \in DOMAIN backends
         THEN backends[defaultBackend]
         ELSE None

\* CacheRegistry.getScoped: the error thrown, and the backend wrapped
getScopedError(name) ==
    LET backendName == IF name # None THEN name ELSE defaultBackend
    IN IF backendName = None THEN "NO_BACKEND_REGISTERED"
       ELSE IF backendName \notin DOMAIN backends THEN "BACKEND_NOT_FOUND"
       ELSE NoError

getScopedBackend(name) ==
    LET backendName == IF name # None THEN name ELSE defaultBackend
    IN IF getScopedError(name) = NoError THEN backends[backendName] ELSE None

GetScoped(name) ==
    /\ last' = CallErr("getScoped", Registry, name, getScopedBackend(name),
                       FALSE, getScopedError(name))
    /\ UNCHANGED <<store, order, now, hits, misses, options, lruMax, lruTtl,
                   scopes, disposed, written, redisVars, registryVars,
                   procVars>>

\* CacheRegistry.getScopedOrDefault: the error thrown, and the backend wrapped
getScopedOrDefaultBackend(name) ==
    IF name # None /\ name \in DOMAIN backends THEN backends[name]
    ELSE IF defaultBackend # None /\ defaultBackend \in DOMAIN backends
         THEN backends[defaultBackend]
         ELSE None

getScopedOrDefaultError(name) ==
    IF getScopedOrDefaultBackend(name) = None THEN "NO_BACKEND_REGISTERED"
    ELSE NoError

GetScopedOrDefault(name) ==
    /\ last' = CallErr("getScopedOrDefault", Registry, name,
                       getScopedOrDefaultBackend(name), FALSE,
                       getScopedOrDefaultError(name))
    /\ UNCHANGED <<store, order, now, hits, misses, options, lruMax, lruTtl,
                   scopes, disposed, written, redisVars, registryVars,
                   procVars>>

\* a fan-out that stops at the first backend whose call rejects: the
\* backends are visited in the order of registration, the memory kind first
fanOutStopsAtFailure(failing) ==
    IF failing = {} THEN DOMAIN backends
    ELSE IF "memory" \in failing THEN {}
    ELSE DOMAIN backends \ {"redis"}

\* CacheRegistry.clearAll and clearAllByPrefix: the call is made on every
\* backend before any promise is awaited and every rejection is caught;
\* CacheRegistry.getStats: the call on each backend is in a try block of its
\* own. The kinds whose call completes, when the calls of the kinds in
\* failing reject
fanOutApplied(failing) == DOMAIN backends \ failing

\* the instances a fan-out acts on; "m1" is the MemoryCache and "r1" the
\* RedisCache whose entries are followed, "m2" is a MemoryCache that no
\* caller writes to
fanOutInstances(failing) == {backends[k] : k \in fanOutApplied(failing)}

\* CacheRegistry.clearAll: backend.clear() on every registered backend
ClearAll(failing) ==
    /\ failing \subseteq DOMAIN backends
    /\ IF "m1" \in fanOutInstances(failing)
       THEN /\ LET c == clearByPrefix(Cur)
               IN /\ Becomes(c)
                  /\ written' = Forget(c)
            /\ hits' = 0
            /\ misses' = 0
       ELSE UNCHANGED <<store, order, written, hits, misses, procVars>>
    /\ IF "r1" \in fanOutInstances(failing)
       THEN /\ RedisBecomes(redisClearByPrefix(rstore, Fails(FALSE)))
            /\ rhits' = 0
            /\ rmisses' = 0
       ELSE UNCHANGED <<rstore, rwritten, rhits, rmisses, procVars>>
    /\ last' = Merge(CallErr("clearAll", Registry, Empty, None, FALSE, NoError),
                     [failing |-> failing])
    /\ UNCHANGED <<now, options, lruMax, lruTtl, scopes, disposed, roptions,
                   rstatus, registryVars, procVars>>

\* CacheRegistry.clearAllByPrefix: backend.deleteByPrefix(prefix) on every
\* registered backend
ClearAllByPrefix(prefix, failing) ==
    /\ failing \subseteq DOMAIN backends
    /\ IF "m1" \in fanOutInstances(failing)
       THEN LET c == deleteByPrefix(Cur, prefix)
            IN /\ Becomes(c)
               /\ written' = Forget(c)
       ELSE UNCHANGED <<store, order, written, procVars>>
    /\ IF "r1" \in fanOutInstances(failing)
       THEN RedisBecomes(redisDeleteByPattern(rstore, prefix \o Star,
                                              Fails(FALSE)))
       ELSE UNCHANGED <<rstore, rwritten, procVars>>
    /\ last' = Merge(CallErr("clearAllByPrefix", Registry, prefix, None, FALSE,
                             NoError), [failing |-> failing])
    /\ UNCHANGED <<now, hits, misses, options, lruMax, lruTtl, scopes,
                   disposed, rhits, rmisses, roptions, rstatus, registryVars,
                   procVars>>

\* the message of the error a failing backend rejects with
BackendError == "backend failed"

\* backend.getStats() of a registered instance
backendStats(cache) ==
    IF cache = "m1" THEN getStats(Mem)
    ELSE IF cache = "r1" THEN getStats(Redis)
    ELSE [hits |-> 0, misses |-> 0]

\* CacheRegistry.getStats: the stats of each backend by kind, and the
\* message of the error for a backend whose getStats() rejects
registryGetStats(failing) ==
    [k \in DOMAIN backends |->
        IF k \in fanOutApplied(failing) THEN backendStats(backends[k])
        ELSE [error |-> BackendError]]

RegistryGetStats(failing) ==
    /\ failing \subseteq DOMAIN backends
    /\ last' = Merge(CallErr("getStats", Registry, Empty, None, FALSE, NoError),
                     [failing |-> failing,
                      stats |-> registryGetStats(failing)])
    /\ UNCHANGED <<store, order, now, hits, misses, options, lruMax, lruTtl,
                   scopes, disposed, written, redisVars, registryVars,
                   procVars>>

\* createCache: the kind of backend built, "memory" when REDIS_URL is not
\* set; the ping of the new client is awaited outside any try block, so its
\* rejection is the rejection of createCache
createCacheKind(backend, urlSet, pingOk) ==
    IF backend = "memory" \/ ~urlSet THEN "memory"
    ELSE IF pingOk THEN "redis"
    ELSE None

createCacheError(backend, urlSet, pingOk) ==
    IF createCacheKind(backend, urlSet, pingOk) = None THEN "ping" ELSE NoError

CreateCache(backend, urlSet, pingOk) ==
    /\ last' = Merge(CallErr("createCache", Registry, backend,
                             createCacheKind(backend, urlSet, pingOk), FALSE,
                             createCacheError(backend, urlSet, pingOk)),
                     [urlSet |-> urlSet, pingOk |-> pingOk])
    /\ UNCHANGED <<store, order, now, hits, misses, options, lruMax, lruTtl,
                   scopes, disposed, written, redisVars, registryVars,
                   procVars>>

\* CacheRegistry.reset, then getInstance: a new, empty registry
RegistryReset ==
    /\ backends' = <<>>
    /\ defaultBackend' = None
    /\ last' = CallErr("reset", Registry, None, None, FALSE, NoError)
    /\ UNCHANGED <<store, order, now, hits, misses, options, lruMax, lruTtl,
                   scopes, disposed, written, redisVars, procVars>>

-----------------------------------------------------------------------------
(* Time *)

\* the clock advances
Tick ==
    /\ now < MaxTime
    /\ now' = now + 1
    /\ last' = Call("tick", Mem, Empty, None)
    /\ UNCHANGED <<store, order, hits, misses, options, lruMax, lruTtl, scopes,
                   disposed, written,
                   redisVars, registryVars, procVars>>

\* ttlAutopurge: the timer of an entry fires and finds it stale
Purge ==
    /\ \E k \in DOMAIN store :
          /\ IsStale(Cur, k)
          /\ LET c == LruDelete(Cur, k)
             IN /\ Becomes(c)
                /\ written' = Forget(c)
                /\ last' = Call("purge", Mem, k, None)
    /\ UNCHANGED <<now, hits, misses, options, lruMax, lruTtl, scopes, disposed,
                   redisVars, registryVars, procVars>>

-----------------------------------------------------------------------------
(* Construction *)

\* new MemoryCache(o), then new ScopedCache(backend, so[s]) for each scope
Constructed(o, so) ==
    /\ options = normalizeOptions(o)
    /\ lruMax = createLRUCacheMax(options)
    /\ lruTtl = options.ttl
    /\ store = <<>>
    /\ order = <<>>
    /\ now = 1
    /\ hits = 0
    /\ misses = 0
    /\ scopes = [s \in ScopeIds |-> ScopedCacheOptions(so[s], options)]
    /\ last = Call("new", Mem, Empty, None)
    /\ disposed = {}
    /\ written = <<>>

\* new RedisCache(client, o) on a connected client and an empty server
RedisConstructed(o) ==
    /\ roptions = normalizeOptions(Merge(o, [maxSize |-> 0]))
    /\ rstore = <<>>
    /\ rhits = 0
    /\ rmisses = 0
    /\ rstatus = "ready"
    /\ rwritten = <<>>

\* new CacheRegistry()
RegistryConstructed ==
    /\ backends = <<>>
    /\ defaultBackend = None

Keys == {KeyA, KeyB}

\* one backend, with or without a prefix of its own, shared by two scopes
\* whose prefixes are "a" and one of "ab" and the default
Init ==
    /\ \E p \in {Empty, PrefixA}, p2 \in {Empty, PrefixAB} :
          Constructed(
              [prefix |-> p, maxSize |-> MaxSize + 1, ttl |-> 0],
              [s \in ScopeIds |->
                  IF s = "s1" THEN [prefix |-> PrefixA]
                  ELSE IF p2 = Empty THEN [enabled |-> TRUE]
                  ELSE [prefix |-> p2]])
    /\ RedisConstructed([ttl |-> 0])
    /\ RegistryConstructed
    /\ Idle

Next ==
    \/ \E k \in Keys : MemSet(k, "v1", NoTtl)
    \/ \E k \in Keys : MemGet(k)
    \/ \E k \in Keys : MemDelete(k)
    \/ \E k \in Keys : MemHas(k)
    \/ MemGetKeys(Star)
    \/ MemDeleteByPattern(Star)
    \/ MemClearByPrefix
    \/ MemClear
    \/ MemDispose
    \/ \E s \in ScopeIds, k \in Keys : ScopedSet(s, k, "v1", NoTtl)
    \/ \E s \in ScopeIds, k \in Keys : ScopedGet(s, k)
    \/ \E s \in ScopeIds, k \in Keys : ScopedDelete(s, k)
    \/ \E s \in ScopeIds, k \in Keys : ScopedHas(s, k)
    \/ \E s \in ScopeIds : ScopedGetKeys(s, Star)
    \/ \E s \in ScopeIds : ScopedSize(s)
    \/ \E s \in ScopeIds : ScopedClear(s)
    \/ \E s \in ScopeIds : ScopedDispose(s)

Spec == Init /\ [][Next]_vars

-----------------------------------------------------------------------------
(* Claims checked under Spec *)

\* the full keys a scope writes: those that start with its prefix and a colon
\* (after the backend's own prefix)
OwnedBy(s, k) == StartsWith(k, buildKey(applyPrefix(s, Empty)))

\* C1: after dispose() of a ScopedCache, a get through it returns undefined,
\* and a set or a delete through it leaves the stored entries unchanged, the
\* delete returning false
C1_DisposedScopeIsInert ==
    [][\A s \in ScopeIds :
          (s \in disposed /\ last'.h = s) =>
             /\ last'.op = "get" => last'.res = None
             /\ last'.op = "set" => store' = store
             /\ last'.op = "delete" => (store' = store /\ last'.res = FALSE)]_vars

\* C2: a dispose() of the MemoryCache leaves the store empty and the counters
\* at zero, and afterwards a set on it does not change the store and a get on
\* it returns undefined
C2_DisposedMemoryIsInert ==
    [][/\ (last'.op = "dispose" /\ last'.h = Mem) =>
             (store' = <<>> /\ hits' = 0 /\ misses' = 0)
       /\ (Mem \in disposed /\ last'.h = Mem) =>
             /\ last'.op = "set" => store' = store
             /\ last'.op = "get" => last'.res = None]_vars

\* C3: clear() of a scope with a non-empty prefix removes the stored keys of
\* that scope and no other key
C3_ClearRemovesOwnKeysOnly ==
    [][\A s \in ScopeIds :
          (last'.op = "clear" /\ last'.h = s /\ scopes[s].prefix # Empty) =>
             DOMAIN store' = {k \in DOMAIN store : ~OwnedBy(s, k)}]_vars

\* whether the entry stored under the full key k was written through handle t
WrittenBy(k, t) == k \in DOMAIN written /\ written[k].by = t

\* C4: for two scopes with distinct non-empty prefixes, what was written
\* through one is not returned by get, reported by has, listed by getKeys or
\* counted by size on the other
C4_ScopesAreIsolated ==
    \A s \in ScopeIds, t \in ScopeIds :
        (/\ last.h = s
         /\ scopes[s].prefix # Empty
         /\ scopes[t].prefix # Empty
         /\ scopes[s].prefix # scopes[t].prefix) =>
            /\ last.op = "get" =>
                  (last.res # None => ~WrittenBy(FullKey(s, last.key), t))
            /\ last.op = "has" =>
                  (last.res => ~WrittenBy(FullKey(s, last.key), t))
            /\ last.op = "getKeys" =>
                  \A k \in Range(last.res) : ~WrittenBy(k, t)
            /\ last.op = "size" =>
                  last.res <= Cardinality({k \in DOMAIN store : ~WrittenBy(k, t)})

\* C9: after clearByPrefix() of the MemoryCache no key the instance wrote is
\* stored, whatever its prefix
C9_ClearByPrefixRemovesAll ==
    (last.op = "clearByPrefix" /\ last.h = Mem) =>
        \A k \in DOMAIN store : ~StartsWith(k, buildKey(Empty))

\* C10: after deleteByPattern(pattern), getKeys(pattern) lists no key
C10_DeleteByPatternRemovesListed ==
    (last.op = "deleteByPattern" /\ last.h = Mem) =>
        getKeys(Cur, last.key) = <<>>

-----------------------------------------------------------------------------
(* Capacity: one MemoryCache used directly, its maxSize changed by          *)
(* setOptions                                                              *)

DefaultScopes == [s \in ScopeIds |-> [enabled |-> TRUE]]

InitLRU ==
    /\ \E m \in {MaxSize + 1, MaxSize + 2} :
          Constructed([maxSize |-> m, ttl |-> 0], DefaultScopes)
    /\ RedisConstructed([ttl |-> 0])
    /\ RegistryConstructed
    /\ Idle

NextLRU ==
    \/ \E k \in {KeyA, KeyB, KeyC} : MemSet(k, "v1", NoTtl)
    \/ \E k \in {KeyA, KeyB, KeyC} : MemGet(k)
    \/ \E k \in {KeyA, KeyB, KeyC} : MemDelete(k)
    \/ \E m \in 1..(MaxSize + 2) : MemSetOptions([maxSize |-> m])
    \/ MemClear

SpecLRU == InitLRU /\ [][NextLRU]_vars

\* C6: when a set returns, the store holds at most maxSize entries
C6_SizeWithinMaxSize ==
    (last.op = "set" /\ last.h = Mem /\ options.maxSize > 0) =>
        LruSize(Cur) <= options.maxSize

\* C8: a set of a new key on a store that holds exactly maxSize entries
\* removes exactly one entry, the least recently accessed one
C8_FullStoreEvictsLeastRecent ==
    [][(/\ last'.op = "set"
        /\ last'.h = Mem
        /\ options.enabled
        /\ FullKey(Mem, last'.key) \notin DOMAIN store
        /\ LruSize(Cur) = options.maxSize) =>
           DOMAIN store \ DOMAIN store' = {Head(order)}]_vars

-----------------------------------------------------------------------------
(* Expiry: the MemoryCache used directly and through the scope with the     *)
(* prefix "a", while time passes                                           *)

InitTTL ==
    /\ Constructed(
          [maxSize |-> MaxSize + 1, ttl |-> 1],
          [s \in ScopeIds |->
              IF s = "s1" THEN [prefix |-> PrefixA] ELSE [enabled |-> TRUE]])
    /\ RedisConstructed([ttl |-> 0])
    /\ RegistryConstructed
    /\ Idle

NextTTL ==
    \/ \E v \in Values, t \in {NoTtl, 0} : MemSet(KeyA, v, t)
    \/ MemSet(KeyB, "v1", NoTtl)
    \/ \E k \in Keys : MemGet(k)
    \/ \E k \in Keys : MemHas(k)
    \/ \E k \in Keys : MemDelete(k)
    \/ ScopedSet("s1", KeyA, "v1", NoTtl)
    \/ ScopedGet("s1", KeyA)
    \/ \E e \in BOOLEAN : MemSetOptions([enabled |-> e])
    \/ MemClear
    \/ Tick
    \/ Purge

SpecTTL == InitTTL /\ [][NextTTL]_vars

\* whether the ttl asked for by the set recorded in w has not elapsed
Unexpired(w) == w.ttl = 0 \/ now < w.at + w.ttl

\* C5: on an enabled cache, a get returns the value of the most recent set of
\* the key (the full key the handle stores it under), provided the entry was
\* not deleted, cleared or evicted since and its ttl has not elapsed
C5_GetReturnsLastSet ==
    LET k == FullKey(last.h, last.key)
    IN (/\ last.op = "get"
        /\ Enabled(last.h)
        /\ k \in DOMAIN written
        /\ Unexpired(written[k])) =>
           last.res = written[k].value

\* a get returns the second value written, after time has passed, from a
\* full store
C5_Witness ==
    /\ last.op = "get"
    /\ last.res = "v2"
    /\ now > 1
    /\ LruSize(Cur) = MaxSize + 1

-----------------------------------------------------------------------------
(* Patterns: a MemoryCache and a RedisCache with the same prefix, keys of   *)
(* one and two characters and a key that spans two lines                   *)

KeyAB == <<"a", "b">>
KeyLines == <<"a", "\n", "b">>
PatKeys == {KeyA, KeyB, KeyAB, KeyLines}

PatternA == <<"a", "*">>
PatternB == <<"*", "b">>
Patterns == {Star, PatternA, PatternB, KeyA}

InitPat ==
    /\ \E p \in {Empty, PrefixA} :
          /\ Constructed([prefix |-> p, ttl |-> 0], DefaultScopes)
          /\ RedisConstructed([prefix |-> p, ttl |-> 0])
    /\ RegistryConstructed
    /\ Idle

NextPat ==
    \/ \E k \in PatKeys : MemSet(k, "v1", NoTtl)
    \/ \E k \in PatKeys : RedisSet(k, "v1", NoTtl, FALSE)
    \/ \E p \in Patterns : MemGetKeys(p)
    \/ \E p \in Patterns : RedisGetKeys(p, FALSE)
    \/ \E p \in Patterns : MemDeleteByPattern(p)
    \/ \E x \in {Empty, KeyA} : MemDeleteByPrefix(x)

SpecPat == InitPat /\ [][NextPat]_vars

\* a pattern matched as the contract describes it: anchored at both ends, `*`
\* standing for any run of characters
RECURSIVE Matches(_, _)
Matches(pat, s) ==
    IF pat = <<>> THEN s = <<>>
    ELSE IF Head(pat) = "*"
         THEN Matches(Tail(pat), s) \/ (s # <<>> /\ Matches(pat, Tail(s)))
         ELSE s # <<>> /\ Head(s) = Head(pat) /\ Matches(Tail(pat), Tail(s))

\* the entries of the store whose key the pattern does not match
NotMatching(pat) ==
    [k \in {x \in DOMAIN store : ~Matches(pat, x)} |-> store[k]]

\* C11: on a MemoryCache without a prefix, deleteByPattern(p) removes the
\* entries whose key matches p and leaves every other entry as it was, and
\* deleteByPrefix(x) does what deleteByPattern(x*) does
C11_DeleteByPatternIsExact ==
    [][(last'.h = Mem /\ options.prefix = Empty) =>
          /\ last'.op = "deleteByPattern" => store' = NotMatching(last'.key)
          /\ last'.op = "deleteByPrefix" =>
                store' = NotMatching(last'.key \o Star)]_vars

\* C12: with the same prefix and the same stored keys, RedisCache.getKeys
\* returns the keys MemoryCache.getKeys returns for the pattern
C12_GetKeysAgree ==
    (/\ last.op = "getKeys"
     /\ last.h = Redis
     /\ roptions.prefix = options.prefix
     /\ DOMAIN rstore = DOMAIN store) =>
        last.res = Range(getKeys(Cur, last.key))

-----------------------------------------------------------------------------
(* Switching off: the MemoryCache, the scope "a" over it and the RedisCache, *)
(* each with its enabled option set and cleared by setOptions               *)

InitOff ==
    /\ Constructed(
          [maxSize |-> MaxSize + 1, ttl |-> 0],
          [s \in ScopeIds |->
              IF s = "s1" THEN [prefix |-> PrefixA] ELSE [enabled |-> TRUE]])
    /\ RedisConstructed([ttl |-> 0])
    /\ RegistryConstructed
    /\ Idle

NextOff ==
    \/ MemSet(KeyA, "v1", NoTtl)
    \/ MemGet(KeyA)
    \/ \E e \in BOOLEAN : MemSetOptions([enabled |-> e])
    \/ ScopedSet("s1", KeyA, "v1", NoTtl)
    \/ ScopedGet("s1", KeyA)
    \/ \E e \in BOOLEAN : ScopedSetOptions("s1", [enabled |-> e])
    \/ \E v \in {"v1", None}, down \in BOOLEAN : RedisSet(KeyA, v, NoTtl, down)
    \/ \E down \in BOOLEAN : RedisGet(KeyA, down)
    \/ \E e \in BOOLEAN : RedisSetOptions([enabled |-> e])

SpecOff == InitOff /\ [][NextOff]_vars

\* C13: while enabled is false on the MemoryCache, on the RedisCache or on a
\* ScopedCache (or on the backend under it), a set through that handle leaves
\* the stored entries as they were and a get through it returns undefined,
\* whatever is stored, and the RedisCache raises no error
C13_DisabledCacheIsInert ==
    [][/\ (last'.h = Mem /\ ~options.enabled) =>
             /\ last'.op = "set" => store' = store
             /\ last'.op = "get" => last'.res = None
       /\ (last'.h = Redis /\ ~roptions.enabled) =>
             /\ last'.op = "set" => (rstore' = rstore /\ last'.err = NoError)
             /\ last'.op = "get" => (last'.res = None /\ last'.err = NoError)
       /\ \A s \in ScopeIds :
             (last'.h = s /\ (~scopes[s].enabled \/ ~options.enabled)) =>
                /\ last'.op = "set" => store' = store
                /\ last'.op = "get" => last'.res = None]_vars

\* a get on the disabled MemoryCache returns undefined for a key that is
\* stored
C13_Witness ==
    /\ last.op = "get"
    /\ last.h = Mem
    /\ ~options.enabled
    /\ FullKey(Mem, last.key) \in DOMAIN store
    /\ last.res = None

\* C14: every get adds exactly one to hits + misses of the backend it is
\* made on or through: one to hits when a value is returned, one to misses
\* when undefined is returned
C14_GetCountsOnce ==
    [][last'.op = "get" =>
          IF last'.h = Redis
          THEN /\ rhits' + rmisses' = rhits + rmisses + 1
               /\ (last'.res # None) <=> (rhits' = rhits + 1)
          ELSE /\ hits' + misses' = hits + misses + 1
               /\ (last'.res # None) <=> (hits' = hits + 1)]_vars

-----------------------------------------------------------------------------
(* Explicit ttl: the MemoryCache, a scope without prefix over it and the    *)
(* RedisCache, all with the same default ttl, written with and without a    *)
(* ttl argument while time passes                                          *)

ExplicitTtls == {0, 1, 2}

InitExp ==
    /\ \E d \in {1, 2} :
          /\ Constructed([maxSize |-> MaxSize + 1, ttl |-> d], DefaultScopes)
          /\ RedisConstructed([ttl |-> d])
    /\ RegistryConstructed
    /\ Idle

NextExp ==
    \/ \E t \in {NoTtl} \cup ExplicitTtls : MemSet(KeyA, "v1", t)
    \/ MemGet(KeyA)
    \/ \E t \in {NoTtl} \cup ExplicitTtls : ScopedSet("s2", KeyA, "v1", t)
    \/ ScopedGet("s2", KeyA)
    \/ \E t \in {NoTtl} \cup ExplicitTtls : RedisSet(KeyA, "v1", t, FALSE)
    \/ RedisGet(KeyA, FALSE)
    \/ Tick
    \/ Purge

SpecExp == InitExp /\ [][NextExp]_vars

\* what a get is to return for the entry recorded in w, written with the
\* ttl w.ttl at the time w.at: its value if the ttl is 0 or has not elapsed,
\* undefined once the time is past w.at + w.ttl (for an entry not read in
\* between)
GetHonoursTtl(w, res, unread) ==
    /\ (w.ttl = 0 \/ now < w.at + w.ttl) => res = w.value
    /\ (w.ttl > 0 /\ unread /\ now > w.at + w.ttl) => res = None

\* C15: an entry written by set(k, v, ttl) with an explicit ttl lives for
\* that ttl and not for the configured default, and with ttl = 0 it does not
\* expire, on the MemoryCache, through a ScopedCache and on the RedisCache
C15_ExplicitTtlIsUsed ==
    [][last'.op = "get" =>
          IF last'.h = Redis
          THEN LET k == rBuildKey(last'.key)
               IN (k \in DOMAIN rwritten /\ rwritten[k].explicit) =>
                     GetHonoursTtl(rwritten[k], last'.res, TRUE)
          ELSE LET k == FullKey(last'.h, last'.key)
               IN (k \in DOMAIN written /\ written[k].explicit) =>
                     GetHonoursTtl(written[k], last'.res, ~written[k].read)]_vars

\* a get returns an entry that was written with an explicit ttl and would
\* have expired under the default ttl
C15_Witness ==
    /\ last.op = "get"
    /\ last.h \in {Mem} \cup ScopeIds
    /\ last.res # None
    /\ FullKey(last.h, last.key) \in DOMAIN written
    /\ written[FullKey(last.h, last.key)].explicit
    /\ now > written[FullKey(last.h, last.key)].at + options.ttl

-----------------------------------------------------------------------------
(* Failures: the RedisCache alone, every operation made with the            *)
(* connection up or down, values that serialize to JSON and the value       *)
(* undefined, which is stored as the empty text                            *)

InitFail ==
    /\ Constructed([maxSize |-> MaxSize + 1, ttl |-> 0], DefaultScopes)
    /\ RedisConstructed([ttl |-> 0])
    /\ RegistryConstructed
    /\ Idle

NextFail ==
    \/ \E k \in Keys, v \in {"v1", None}, down \in BOOLEAN :
          RedisSet(k, v, NoTtl, down)
    \/ \E k \in Keys, down \in BOOLEAN : RedisGet(k, down)
    \/ \E k \in Keys, down \in BOOLEAN : RedisDelete(k, down)
    \/ \E k \in Keys, down \in BOOLEAN : RedisHas(k, down)
    \/ \E down \in BOOLEAN : RedisGetKeys(PatternA, down)
    \/ \E down \in BOOLEAN : RedisSize(down)
    \/ \E down \in BOOLEAN : RedisDeleteByPattern(PatternA, down)
    \/ \E down \in BOOLEAN : RedisClearByPrefix(down)
    \/ \E down \in BOOLEAN : RedisClear(down)
    \/ \E down \in BOOLEAN : RedisDispose(down)

SpecFail == InitFail /\ [][NextFail]_vars

\* C16: no operation of the RedisCache raises; when the client fails, get
\* returns undefined, set leaves the server as it was, delete and has return
\* false, getKeys returns no key and size returns 0; and a get of a stored
\* text that does not parse returns undefined
C16_RedisFailsOpen ==
    [][last'.h = Redis =>
          /\ last'.err = NoError
          /\ last'.failed =>
                /\ last'.op = "get" => last'.res = None
                /\ last'.op = "set" => rstore' = rstore
                /\ last'.op = "delete" => last'.res = FALSE
                /\ last'.op = "has" => last'.res = FALSE
                /\ last'.op = "getKeys" => last'.res = {}
                /\ last'.op = "size" => last'.res = 0
          /\ (/\ last'.op = "get"
              /\ rBuildKey(last'.key) \in DOMAIN rstore
              /\ ParseFails(rstore[rBuildKey(last'.key)].raw)) =>
                last'.res = None]_vars

\* the client fails on a has of a key that is stored, and has returns false
C16_Witness ==
    /\ last.op = "has"
    /\ last.h = Redis
    /\ last.failed
    /\ rBuildKey(last.key) \in DOMAIN rstore
    /\ last.res = FALSE

-----------------------------------------------------------------------------
(* Endings: clear and dispose on the MemoryCache (with or without a prefix  *)
(* of its own), on the scopes "a" and "" over it and on the RedisCache      *)

InitEnd ==
    /\ \E p \in {Empty, PrefixA} :
          Constructed(
              [prefix |-> p, maxSize |-> MaxSize + 1, ttl |-> 0],
              [s \in ScopeIds |->
                  IF s = "s1" THEN [prefix |-> PrefixA] ELSE [enabled |-> TRUE]])
    /\ RedisConstructed([ttl |-> 0])
    /\ RegistryConstructed
    /\ Idle

NextEnd ==
    \/ MemSet(KeyA, "v1", NoTtl)
    \/ MemGet(KeyA)
    \/ MemClear
    \/ MemDispose
    \/ \E s \in ScopeIds : ScopedSet(s, KeyA, "v1", NoTtl)
    \/ \E s \in ScopeIds : ScopedGet(s, KeyA)
    \/ \E s \in ScopeIds : ScopedClear(s)
    \/ \E s \in ScopeIds : ScopedDispose(s)
    \/ \E down \in BOOLEAN : RedisSet(KeyA, "v1", NoTtl, down)
    \/ \E down \in BOOLEAN : RedisGet(KeyA, down)
    \/ \E down \in BOOLEAN : RedisClear(down)
    \/ \E down \in BOOLEAN : RedisDispose(down)

SpecEnd == InitEnd /\ [][NextEnd]_vars

\* C17: when clear() returns, the hits and misses the handle's getStats()
\* reports are zero, and the stored entries are those clearByPrefix() on the
\* handle leaves
C17_ClearResetsCounters ==
    [][\A h \in {Mem, Redis} \cup ScopeIds :
          (last'.op = "clear" /\ last'.h = h) =>
             /\ getStats(h)' = [hits |-> 0, misses |-> 0]
             /\ h = Mem => store' = clearByPrefix(Cur).store
             /\ h = Redis => rstore' = redisClearByPrefix(rstore, last'.failed)
             /\ h \in ScopeIds => store' = scopedClear(Cur, h).store]_vars

\* C18: a dispose() that follows a dispose() of the same handle raises no
\* error and changes neither the stored entries, nor the counters, nor the
\* state of the connection
C18_DisposeIsIdempotent ==
    [][(last.op = "dispose" /\ last'.op = "dispose" /\ last'.h = last.h) =>
          /\ store' = store
          /\ hits' = hits
          /\ misses' = misses
          /\ rstore' = rstore
          /\ rhits' = rhits
          /\ rmisses' = rmisses
          /\ rstatus' = rstatus
          /\ last'.h = Redis => last'.err = NoError]_vars

\* a scope has been disposed twice in a row while entries it does not remove
\* are stored
C18_Witness ==
    /\ last.op = "dispose"
    /\ last.again
    /\ last.h \in ScopeIds
    /\ store # <<>>

-----------------------------------------------------------------------------
(* The registry: backends of the two kinds registered, as default or not,   *)
(* and scoped handles resolved by name and without a name                  *)

InitReg ==
    /\ Constructed([maxSize |-> MaxSize + 1, ttl |-> 0], DefaultScopes)
    /\ RedisConstructed([ttl |-> 0])
    /\ RegistryConstructed
    /\ Idle

NextReg ==
    \/ \E cache \in Instances, isDefault \in BOOLEAN :
          RegisterBackend(cache, isDefault)
    \/ \E name \in Kinds \cup {None} : GetScoped(name)
    \/ \E name \in Kinds \cup {None} : GetScopedOrDefault(name)
    \/ RegistryReset
    \/ \E backend \in Kinds, urlSet \in BOOLEAN, pingOk \in BOOLEAN :
          CreateCache(backend, urlSet, pingOk)

SpecReg == InitReg /\ [][NextReg]_vars

\* C19: registerBackend of a cache whose kind is already registered ends
\* with an error, and leaves the registered backends and the default kind as
\* they were
C19_DuplicateKindIsRejected ==
    [][(last'.op = "registerBackend" /\ Kind(last'.key) \in DOMAIN backends) =>
          /\ last'.err # NoError
          /\ backends' = backends
          /\ defaultBackend' = defaultBackend]_vars

\* C20: whenever a backend is registered, the default kind is a registered
\* kind, and getScoped() and getScopedOrDefault() without a name would
\* succeed
C20_DefaultIsRegistered ==
    DOMAIN backends # {} =>
        /\ defaultBackend \in DOMAIN backends
        /\ getScopedError(None) = NoError
        /\ getScopedOrDefaultError(None) = NoError

\* C21: after any sequence of registerBackend calls every registered kind
\* holds one backend of that kind, a registerBackend call keeps the backend
\* that was registered first for a kind, and the default kind, when set, is
\* a registered kind
C21_OneBackendPerKind ==
    [][/\ DOMAIN backends' \subseteq Kinds
       /\ \A k \in DOMAIN backends' : Kind(backends'[k]) = k
       /\ defaultBackend' # None => defaultBackend' \in DOMAIN backends'
       /\ last'.op = "registerBackend" =>
             \A k \in DOMAIN backends : /\ k \in DOMAIN backends'
                                       /\ backends'[k] = backends[k]]_vars

C21_Witness ==
    /\ last.op = "registerBackend"
    /\ Kind(last.key) \in DOMAIN backends
    /\ backends[Kind(last.key)] # last.key
    /\ defaultBackend # None

\* C22: getScopedOrDefault wraps the named backend when the name is given
\* and registered, otherwise the default backend when there is one, and
\* otherwise raises NO_BACKEND_REGISTERED; getScoped raises
\* BACKEND_NOT_FOUND for a name that is given and not registered and wraps
\* nothing
C22_LenientAndStrictLookup ==
    /\ last.op = "getScopedOrDefault" =>
          IF last.key # None /\ last.key \in DOMAIN backends
          THEN last.res = backends[last.key] /\ last.err = NoError
          ELSE IF defaultBackend # None
               THEN /\ last.res = backends[defaultBackend]
                    /\ last.err = NoError
               ELSE /\ last.res = None
                    /\ last.err = "NO_BACKEND_REGISTERED"
    /\ (last.op = "getScoped" /\ last.key # None
           /\ last.key \notin DOMAIN backends) =>
          /\ last.res = None
          /\ last.err = "BACKEND_NOT_FOUND"

C22_Witness ==
    /\ last.op = "getScopedOrDefault"
    /\ last.key # None
    /\ last.key \notin DOMAIN backends
    /\ defaultBackend # None
    /\ last.res = backends[defaultBackend]

\* C24: createCache("redis") never fails: it returns a memory backend when
\* REDIS_URL is not set, and also when the URL is set and the ping of the
\* server fails
C24_RedisFallsBackToMemory ==
    (last.op = "createCache" /\ last.key = "redis") =>
        /\ last.err = NoError
        /\ (~last.urlSet \/ ~last.pingOk) => last.res = "memory"

-----------------------------------------------------------------------------
(* Fan-out: the registry clears, clears by prefix and collects the stats of *)
(* its backends while the calls of some of them reject                      *)

InitFan ==
    /\ Constructed([maxSize |-> MaxSize + 1, ttl |-> 0], DefaultScopes)
    /\ RedisConstructed([ttl |-> 0])
    /\ RegistryConstructed
    /\ Idle

NextFan ==
    \/ \E cache \in Instances : RegisterBackend(cache, FALSE)
    \/ \E key \in Keys : MemSet(key, "v1", NoTtl)
    \/ MemGet(KeyA)
    \/ RedisSet(KeyA, "v1", NoTtl, FALSE)
    \/ RedisGet(KeyA, FALSE)
    \/ \E failing \in SUBSET Kinds : ClearAll(failing)
    \/ \E failing \in SUBSET Kinds : ClearAllByPrefix(KeyA, failing)
    \/ \E failing \in SUBSET Kinds : RegistryGetStats(failing)

SpecFan == InitFan /\ [][NextFan]_vars

\* C23: clearAll, clearAllByPrefix and getStats of the registry raise no
\* error when the call of a backend fails; every other registered backend is
\* left as its own clear() or deleteByPrefix() leaves it, and getStats
\* reports the error of the failing backend and the stats of the others
C23_FanOutIsolatesFailures ==
    [][last'.op \in {"clearAll", "clearAllByPrefix", "getStats"} =>
        LET failing == last'.failing
            ok(cache) == /\ cache \in Range(backends)
                         /\ Kind(cache) \notin failing
        IN /\ last'.err = NoError
           /\ last'.op = "clearAll" =>
                 /\ ok("m1") => /\ store' = clearByPrefix(Cur).store
                                /\ hits' = 0 /\ misses' = 0
                 /\ ok("r1") => /\ rstore' = redisClearByPrefix(rstore, FALSE)
                                /\ rhits' = 0 /\ rmisses' = 0
           /\ last'.op = "clearAllByPrefix" =>
                 /\ ok("m1") => store' = deleteByPrefix(Cur, last'.key).store
                 /\ ok("r1") => rstore' = redisDeleteByPattern(
                                              rstore, last'.key \o Star, FALSE)
           /\ last'.op = "getStats" =>
                 /\ DOMAIN last'.stats = DOMAIN backends
                 /\ \A k \in DOMAIN backends :
                       IF k \in failing
                       THEN DOMAIN last'.stats[k] = {"error"}
                       ELSE /\ backends[k] = "m1" =>
                                 last'.stats[k] = [hits |-> hits,
                                                   misses |-> misses]
                            /\ backends[k] = "r1" =>
                                 last'.stats[k] = [hits |-> rhits,
                                                   misses |-> rmisses]]_vars

C23_Witness ==
    /\ last.op = "clearAll"
    /\ last.failing = {"redis"}
    /\ DOMAIN backends = Kinds
    /\ backends["memory"] = "m1"
    /\ store = <<>>
    /\ rstore # <<>>

-----------------------------------------------------------------------------
(* Options: setOptions on the MemoryCache, on the RedisCache and on a scope, *)
(* with fields that hold a value and fields passed as undefined             *)

OptionFields == {"ttl", "maxSize", "prefix", "enabled"}

OptionObjects ==
    {[ttl |-> 1], [enabled |-> FALSE], [prefix |-> PrefixA],
     [undefined |-> {"ttl"}],
     [maxSize |-> 1, undefined |-> {"enabled", "prefix"}]}

InitOpt ==
    /\ \E o \in {[ttl |-> 0], [ttl |-> 0, undefined |-> {"maxSize"}]},
          so \in {[prefix |-> PrefixA], [undefined |-> {"ttl", "prefix"}]} :
          Constructed(o, [s \in ScopeIds |-> so])
    /\ RedisConstructed([ttl |-> 0])
    /\ RegistryConstructed
    /\ Idle

NextOpt ==
    \/ \E o \in OptionObjects : MemSetOptions(o)
    \/ \E o \in OptionObjects : RedisSetOptions(o)
    \/ \E o \in OptionObjects : ScopedSetOptions("s1", o)

SpecOpt == InitOpt /\ [][NextOpt]_vars

\* C25: after construction and any sequence of setOptions calls, with fields
\* passed as undefined too, getOptions() of a backend and of a ScopedCache
\* has ttl, maxSize, prefix and enabled all defined
C25_OptionsAlwaysDefined ==
    \A h \in {Mem, Redis} \cup ScopeIds : OptionFields \subseteq DOMAIN getOptions(h)

-----------------------------------------------------------------------------
(* Scopes made and reconfigured over one MemoryCache, which is reconfigured *)
(* too                                                                      *)

Overrides ==
    {[ttl |-> 1], [enabled |-> FALSE], [prefix |-> PrefixA],
     [undefined |-> {"ttl"}]}

InitOwn == InitOpt

NextOwn ==
    \/ \E s \in ScopeIds, o \in Overrides : NewScopedCache(s, o)
    \/ \E s \in ScopeIds, o \in Overrides : ScopedSetOptions(s, o)
    \/ \E o \in {[ttl |-> 1], [ttl |-> 0]} : MemSetOptions(o)

SpecOwn == InitOwn /\ [][NextOwn]_vars

-----------------------------------------------------------------------------
(* Capacity: a MemoryCache built with maxSize 0 is filled with entries      *)
(* under distinct keys, "1", "2", ... in turn                               *)

DigitChars == <<"0", "1", "2", "3", "4", "5", "6", "7", "8", "9">>

\* the decimal numeral of n, the n-th distinct key
RECURSIVE Decimal(_)
Decimal(n) ==
    IF n < 10 THEN <<DigitChars[n + 1]>>
    ELSE Decimal(n \div 10) \o <<DigitChars[(n % 10) + 1]>>

InitCap ==
    /\ Constructed([maxSize |-> 0, ttl |-> 0], DefaultScopes)
    /\ RedisConstructed([ttl |-> 0])
    /\ RegistryConstructed
    /\ Idle

NextCap == MemSet(Decimal(Len(order) + 1), "v1", NoTtl)

SpecCap == InitCap /\ [][NextCap]_vars

\* C26: on a MemoryCache whose maxSize is 0 no set of a key that is not
\* stored removes an entry: every key stored before the set is stored after
\* it
C26_ZeroMaxSizeIsUnlimited ==
    [][(last'.op = "set" /\ options.maxSize = 0) =>
          DOMAIN store \subseteq DOMAIN store']_vars

-----------------------------------------------------------------------------
(* Claims about the size of a scope, checked under Spec *)

\* C27: size() of a scope with a non-empty prefix, over a backend with or
\* without a prefix of its own, is the number of stored entries written
\* through that scope
C27_ScopedSizeCountsOwnEntries ==
    (last.op = "size" /\ last.h \in ScopeIds /\ scopes[last.h].prefix # Empty) =>
        last.res = Cardinality({k \in DOMAIN store : written[k].by = last.h})

-----------------------------------------------------------------------------
(* stableHash and generateKey.  A JavaScript value is a record with one     *)
(* field, named after its type: undefined, null, boolean, number, string,   *)
(* array (a sequence of values) or object (the sequence of its properties,  *)
(* [k, v], in insertion order).                                             *)

Undef == [undefined |-> TRUE]
Null == [null |-> TRUE]
Bool(b) == [boolean |-> b]
Num(n) == [number |-> n]
Str(t) == [string |-> t]
Arr(items) == [array |-> items]
Obj(props) == [object |-> props]

IsArray(v) == "array" \in DOMAIN v
IsObject(v) == "object" \in DOMAIN v

\* !value
Falsy(v) ==
    \/ "undefined" \in DOMAIN v
    \/ "null" \in DOMAIN v
    \/ "boolean" \in DOMAIN v /\ ~v.boolean
    \/ "number" \in DOMAIN v /\ v.number = 0
    \/ "string" \in DOMAIN v /\ v.string = <<>>

\* the UTF-16 code unit of a one-character property name
CodeUnit == [a |-> 97, b |-> 98]

\* properties kept in the order they were inserted
InsertionOrder(props) == props

\* Array.prototype.sort on Object.keys, carried over to the properties: by
\* code unit of the name, ascending
RECURSIVE SortByKey(_)
SortByKey(props) ==
    IF props = <<>> THEN <<>>
    ELSE LET i == CHOOSE i \in DOMAIN props :
                     \A j \in DOMAIN props :
                         CodeUnit[props[i].k] <= CodeUnit[props[j].k]
         IN <<props[i]>> \o
            SortByKey(SubSeq(props, 1, i - 1) \o
                      SubSeq(props, i + 1, Len(props)))

\* stable-hash.ts normalize
RECURSIVE normalize(_)
normalize(value) ==
    IF IsArray(value)
    THEN Arr([i \in DOMAIN value.array |-> normalize(value.array[i])])
    ELSE IF IsObject(value)
    THEN LET sorted == SortByKey(value.object)
         IN Obj([i \in DOMAIN sorted |->
                    [k |-> sorted[i].k, v |-> normalize(sorted[i].v)]])
    ELSE value

\* texts joined by commas
RECURSIVE Join(_)
Join(texts) ==
    IF texts = <<>> THEN <<>>
    ELSE IF Len(texts) = 1 THEN Head(texts)
    ELSE Head(texts) \o <<",">> \o Join(Tail(texts))

\* safe-stable-stringify: the JSON text of a value, the properties of an
\* object in the order of their names
RECURSIVE stringify(_)
stringify(value) ==
    IF "null" \in DOMAIN value THEN <<"null">>
    ELSE IF "boolean" \in DOMAIN value
    THEN IF value.boolean THEN <<"true">> ELSE <<"false">>
    ELSE IF "number" \in DOMAIN value THEN Decimal(value.number)
    ELSE IF "string" \in DOMAIN value THEN <<"\"">> \o value.string \o <<"\"">>
    ELSE IF IsArray(value)
    THEN <<"[">> \o Join([i \in DOMAIN value.array |->
                             stringify(value.array[i])]) \o <<"]">>
    ELSE IF IsObject(value)
    THEN LET sorted == SortByKey(value.object)
         IN <<"{">> \o Join([i \in DOMAIN sorted |->
                                <<"\"", sorted[i].k, "\"", ":">> \o
                                stringify(sorted[i].v)]) \o <<"}">>
    ELSE <<>>

\* the first 16 hex digits of the sha1 digest of a text: a function of the
\* text, under which texts that differ stay apart
Sha1(text) == <<"sha1(">> \o text \o <<")">>

\* stable-hash.ts stableHash
stableHash(value) == Sha1(stringify(normalize(value)))

\* BaseCache.generateKey and ScopedCache.generateKey
generateKey(h, resource, operation, params) ==
    LET key == IF Falsy(params) THEN resource \o <<":">> \o operation
               ELSE resource \o <<":">> \o operation \o <<":">> \o
                    stableHash(params)
    IN IF h = Mem THEN buildKey(key) ELSE applyPrefix(h, key)

Resource == <<"U">>
Operation == <<"l">>

\* stableHash of two values, and generateKey with each as params
StableHash(v1, v2) ==
    /\ last' = [op |-> "stableHash", h |-> Mem, key |-> <<v1, v2>>,
                res |-> <<stableHash(v1), stableHash(v2)>>,
                keys |-> <<generateKey(Mem, Resource, Operation, v1),
                           generateKey(Mem, Resource, Operation, v2)>>]
    /\ UNCHANGED <<store, order, now, hits, misses, options, lruMax, lruTtl,
                   scopes, disposed, written, redisVars, registryVars,
                   procVars>>

GenerateKey(h, params) ==
    /\ last' = Call("generateKey", h, params,
                    generateKey(h, Resource, Operation, params))
    /\ UNCHANGED <<store, order, now, hits, misses, options, lruMax, lruTtl,
                   scopes, disposed, written, redisVars, registryVars,
                   procVars>>

\* the value of the property k
ValueAt(props, k) == props[CHOOSE i \in DOMAIN props : props[i].k = k].v

PropertyNames(props) == {props[i].k : i \in DOMAIN props}

\* deep equality of two values, whatever the insertion order of the
\* properties of their objects
RECURSIVE DeepEqual(_, _)
DeepEqual(v1, v2) ==
    IF IsArray(v1)
    THEN /\ IsArray(v2)
         /\ Len(v1.array) = Len(v2.array)
         /\ \A i \in DOMAIN v1.array : DeepEqual(v1.array[i], v2.array[i])
    ELSE IF IsObject(v1)
    THEN /\ IsObject(v2)
         /\ Len(v1.object) = Len(v2.object)
         /\ PropertyNames(v1.object) = PropertyNames(v2.object)
         /\ \A k \in PropertyNames(v1.object) :
               DeepEqual(ValueAt(v1.object, k), ValueAt(v2.object, k))
    ELSE v1 = v2

\* the objects with the properties a and b, in either order, and with one
\* of them, their values drawn from vs
ObjectsOver(vs) ==
    {Obj(<<[k |-> "a", v |-> x], [k |-> "b", v |-> y]>>) : x \in vs, y \in vs}
    \cup
    {Obj(<<[k |-> "b", v |-> y], [k |-> "a", v |-> x]>>) : x \in vs, y \in vs}
    \cup {Obj(<<[k |-> n, v |-> x]>>) : n \in {"a", "b"}, x \in vs}

Scalars == {Num(1), Num(2)}

Nested == ObjectsOver(Scalars) \cup {Obj(<<>>)}

\* structured values: objects in objects and in arrays
Structured ==
    Nested \cup ObjectsOver({Num(1)} \cup ObjectsOver({Num(1)}))
           \cup {Arr(<<x, Num(1)>>) : x \in Nested}

\* the params of generateKey: not supplied, the values that read as false,
\* and others
Params ==
    {Undef, Null, Num(0), Num(1), Bool(FALSE), Bool(TRUE), Str(<<>>),
     Str(<<"a">>), Obj(<<>>), Arr(<<>>)} \cup ObjectsOver({Num(1)})

InitHash ==
    /\ \E p \in {Empty, PrefixA} :
          Constructed(
              [prefix |-> p, maxSize |-> MaxSize + 1, ttl |-> 0],
              [s \in ScopeIds |->
                  IF s = "s1" THEN [prefix |-> PrefixA] ELSE [enabled |-> TRUE]])
    /\ RedisConstructed([ttl |-> 0])
    /\ RegistryConstructed
    /\ Idle

NextHash ==
    \/ \E v1 \in Structured :
          \E v2 \in {v \in Structured : DeepEqual(v1, v)} : StableHash(v1, v2)
    \/ \E h \in {Mem} \cup ScopeIds, params \in Params : GenerateKey(h, params)

SpecHash == InitHash /\ [][NextHash]_vars

\* C28: two values that are deeply equal but for the insertion order of the
\* properties of their objects, at any depth, have the same stableHash, and
\* generateKey gives the same key with either as params
C28_HashIgnoresKeyOrder ==
    (last.op = "stableHash" /\ DeepEqual(last.key[1], last.key[2])) =>
        /\ last.res[1] = last.res[2]
        /\ last.keys[1] = last.keys[2]

C28_Witness ==
    /\ last.op = "stableHash"
    /\ last.key[1] =
          Obj(<<[k |-> "a", v |-> Obj(<<[k |-> "a", v |-> Num(1)],
                                        [k |-> "b", v |-> Num(1)]>>)],
                [k |-> "b", v |-> Num(1)]>>)
    /\ last.key[2] =
          Obj(<<[k |-> "b", v |-> Num(1)],
                [k |-> "a", v |-> Obj(<<[k |-> "b", v |-> Num(1)],
                                        [k |-> "a", v |-> Num(1)]>>)]>>)
    /\ last.res[1] = last.res[2]

\* C29: generateKey returns resource:operation exactly when params is not
\* supplied and resource:operation:hash(params) for every params supplied,
\* 0, false, the empty string and null among them, with "prefix:" in front
\* exactly when the prefix of the handle is not empty
C29_GenerateKeyHashesEverySuppliedParams ==
    last.op = "generateKey" =>
        LET prefix == IF last.h = Mem THEN options.prefix
                      ELSE scopes[last.h].prefix
            key == IF "undefined" \in DOMAIN last.key
                   THEN Resource \o <<":">> \o Operation
                   ELSE Resource \o <<":">> \o Operation \o <<":">> \o
                        stableHash(last.key)
        IN last.res = IF prefix # Empty THEN prefix \o <<":">> \o key ELSE key

-----------------------------------------------------------------------------
(* Claims about a lowered maxSize, checked under SpecLRU *)

\* C30: after setOptions({maxSize: n}) on a MemoryCache that holds more than
\* n entries, n > 0, the store holds n entries, and they are the n most
\* recently used ones
C30_LoweredMaxSizeKeepsMostRecent ==
    [][(/\ last'.op = "setOptions"
        /\ last'.h = Mem
        /\ 0 < options'.maxSize
        /\ options'.maxSize < LruSize(Cur)) =>
          /\ Cardinality(DOMAIN store') = options'.maxSize
          /\ DOMAIN store' =
                Range(SubSeq(order, Len(order) - options'.maxSize + 1,
                             Len(order)))]_vars

-----------------------------------------------------------------------------
(* Age: one entry of the MemoryCache read more than once while time passes *)

InitAge ==
    /\ Constructed([maxSize |-> MaxSize + 1, ttl |-> 1], DefaultScopes)
    /\ RedisConstructed([ttl |-> 0])
    /\ RegistryConstructed
    /\ Idle

NextAge ==
    \/ \E k \in Keys : MemSet(k, "v1", NoTtl)
    \/ \E k \in Keys : MemGetWithin(k, MaxOps + 1)
    \/ MemHas(KeyA)
    \/ Tick
    \/ Purge

SpecAge == InitAge /\ [][NextAge]_vars

\* C34: an entry written with ttl > 0 at time t and not rewritten is not
\* returned by a get at any time after t + ttl (and so not at or after it),
\* however many gets of the key came before
C34_ReadsDoNotExtendLifetime ==
    [][LET k == FullKey(Mem, last'.key)
       IN (/\ last'.op = "get"
           /\ last'.h = Mem
           /\ k \in DOMAIN written
           /\ written[k].ttl > 0
           /\ now > written[k].at + written[k].ttl) =>
              last'.res = None]_vars

-----------------------------------------------------------------------------
(* A bounded MemoryCache whose maxSize is set to 0, the value documented    *)
(* as unlimited                                                             *)

InitZero ==
    /\ \E m \in {MaxSize + 1, MaxSize + 2} :
          Constructed([maxSize |-> m, ttl |-> 0], DefaultScopes)
    /\ RedisConstructed([ttl |-> 0])
    /\ RegistryConstructed
    /\ Idle

NextZero ==
    \/ \E k \in {KeyA, KeyB, KeyC} : MemSet(k, "v1", NoTtl)
    \/ \E k \in {KeyA, KeyB, KeyC} : MemGet(k)
    \/ \E m \in {0, MaxSize + 2} : MemSetOptions([maxSize |-> m])

SpecZero == InitZero /\ [][NextZero]_vars

\* C35: setOptions({maxSize: 0}) on a MemoryCache removes no entry: every
\* entry stored before the call is stored, with its value, after it
C35_ZeroMaxSizeEvictsNothing ==
    [][(last'.op = "setOptions" /\ last'.h = Mem /\ options'.maxSize = 0) =>
          \A k \in DOMAIN store :
              /\ k \in DOMAIN store'
              /\ store'[k].value = store[k].value]_vars

-----------------------------------------------------------------------------
(* Claims about a scope without a prefix, checked under Spec *)

\* C36: clear() and dispose() of a ScopedCache whose prefix is empty leave
\* every entry written through another handle on the same backend in the
\* store
C36_UnprefixedScopeSparesOthers ==
    [][\A s \in ScopeIds :
          (/\ last'.op \in {"clear", "dispose"}
           /\ last'.h = s
           /\ scopes[s].prefix = Empty) =>
              \A k \in DOMAIN store :
                  written[k].by # s => k \in DOMAIN store']_vars

-----------------------------------------------------------------------------
(* A MemoryCache whose prefix is changed with setOptions while it holds     *)
(* entries                                                                  *)

InitPre ==
    /\ Constructed([maxSize |-> MaxSize + 2, ttl |-> 0], DefaultScopes)
    /\ RedisConstructed([ttl |-> 0])
    /\ RegistryConstructed
    /\ Idle

NextPre ==
    \/ \E k \in {KeyA, KeyB}, v \in Values : MemSet(k, v, NoTtl)
    \/ \E k \in {KeyA, KeyB} : MemGet(k)
    \/ \E q \in {Empty, PrefixA, PrefixAB} : MemSetOptions([prefix |-> q])
    \/ MemClear

SpecPre == InitPre /\ [][NextPre]_vars

\* C39: after setOptions({prefix: q}) on a MemoryCache every entry that get
\* returned under a caller's key before the call is still found, with its
\* value, under the same caller's key, and clear() leaves no entry that the
\* instance wrote
C39_PrefixChangeKeepsEntriesReachable ==
    [][/\ (last'.op = "setOptions" /\ last'.h = Mem) =>
              \A k \in {KeyA, KeyB} :
                  WithPrefix(options.prefix, k) \in DOMAIN store =>
                      /\ WithPrefix(options'.prefix, k) \in DOMAIN store'
                      /\ store'[WithPrefix(options'.prefix, k)].value =
                             store[WithPrefix(options.prefix, k)].value
       /\ (last'.op = "clear" /\ last'.h = Mem) =>
              \A k \in DOMAIN store' : written'[k].by # Mem]_vars

-----------------------------------------------------------------------------
(* The RedisCache disconnected on a client that is ready, has lost its      *)
(* connection or is closed already                                          *)

InitQuit ==
    /\ Constructed([maxSize |-> MaxSize + 1, ttl |-> 0], DefaultScopes)
    /\ RedisConstructed([ttl |-> 0])
    /\ RegistryConstructed
    /\ Idle

NextQuit ==
    \/ \E k \in {KeyA, KeyB}, v \in Values, down \in BOOLEAN :
          RedisSet(k, v, NoTtl, down)
    \/ \E k \in {KeyA, KeyB}, down \in BOOLEAN : RedisGet(k, down)
    \/ \E status \in {"close", "reconnecting"} : ConnectionLost(status)
    \/ \E down \in BOOLEAN, quitFails \in BOOLEAN :
          RedisDisconnect(down, quitFails)

SpecQuit == InitQuit /\ [][NextQuit]_vars

-----------------------------------------------------------------------------
(* deleteByPattern on a MemoryCache without a prefix, with calls of set     *)
(* and get that run while it is suspended                                   *)

InitRace ==
    /\ Constructed([maxSize |-> MaxSize + 2, ttl |-> 0], DefaultScopes)
    /\ RedisConstructed([ttl |-> 0])
    /\ RegistryConstructed
    /\ Idle

NextRace ==
    \/ \E k \in {KeyA, KeyB}, v \in Values : MemSet(k, v, NoTtl)
    \/ \E k \in {KeyA, KeyB} : MemGet(k)
    \/ \E pattern \in {Star, PatternA} : MemDeleteByPatternBegin(pattern)
    \/ MemDeleteByPatternStep
    \/ MemDeleteByPatternEnd

SpecRace == InitRace /\ [][NextRace]_vars

\* C38: when deleteByPattern returns, every value it removed was stored under
\* its key when deleteByPattern listed the keys: a value written to a listed
\* key after that, and before the key's delete, has not been removed
C38_LateWritesSurviveDeleteByPattern ==
    [][(pending.active /\ ~pending'.active) =>
          \A k \in DOMAIN pending.removed :
              /\ k \in DOMAIN pending.seen
              /\ pending.removed[k].value = pending.seen[k].value]_vars

-----------------------------------------------------------------------------
(* The scan loops of the RedisCache, with calls of set that the server      *)
(* handles between two answers; every request of a loop is answered or      *)
(* fails                                                                    *)

ScanOps == {"clearByPrefix", "size", "getKeys"}

InitScan ==
    /\ Constructed([maxSize |-> MaxSize + 1, ttl |-> 0], DefaultScopes)
    /\ RedisConstructed([ttl |-> 0])
    /\ RegistryConstructed
    /\ Idle

NextScan ==
    \/ \E k \in {KeyA, KeyAB}, down \in BOOLEAN : RedisSet(k, "v1", NoTtl, down)
    \/ \E op \in ScanOps : RedisScanBegin(op, Star)
    \/ \E down \in BOOLEAN : RedisScanReply(down)
    \/ \E down \in BOOLEAN : RedisScanDelete(down)

SpecScan ==
    /\ InitScan
    /\ [][NextScan]_vars
    /\ WF_vars(\E down \in BOOLEAN : RedisScanReply(down))
    /\ WF_vars(\E down \in BOOLEAN : RedisScanDelete(down))

\* the cursors of a loop: the first request is made with cursor 0, every
\* later one with the cursor the server returned last, none after the server
\* returned 0, and clearByPrefix makes no request while a batch is to be
\* deleted
CursorsChain ==
    /\ scan.asked # <<>> => scan.asked[1] = 0
    /\ \A i \in 2..Len(scan.asked) : scan.asked[i] = scan.got[i - 1]
    /\ \A i \in 1..(Len(scan.got) - 1) : scan.got[i] # 0
    /\ scan.pc = "scan" =>
          /\ scan.batch = {}
          /\ scan.got # <<>> => scan.got[Len(scan.got)] # 0

\* a loop ends only with an error of the client or when the server has
\* returned the cursor 0
EndsAtZero ==
    (scan.op # None /\ scan'.op = None) =>
        \/ last'.failed
        \/ /\ scan'.got # <<>>
           /\ scan'.got[Len(scan'.got)] = 0

\* C31: clearByPrefix, size and getKeys scan from cursor 0, pass each cursor
\* returned to the next scan and stop exactly when the server returns 0 or
\* the client fails; clearByPrefix deletes a batch that is not empty before
\* it asks for the next; a loop that was started ends
C31_ScanLoopFollowsCursor ==
    /\ []CursorsChain
    /\ [][EndsAtZero]_vars
    /\ (scan.op # None) ~> (scan.op = None)

\* clearByPrefix has returned without an error after as many scans as the
\* server has slots, and deleted a key
C31_Witness ==
    /\ last.op = "clearByPrefix" /\ last.h = Redis /\ ~last.failed
    /\ Len(last.cursors) = NumSlots
    /\ scan.op = None
    /\ scan.keys # {}

\* C32: when a clearByPrefix that ran while keys were set returns without an
\* error, every key under the prefix that was on the server when the scan
\* started and was not set during the scan is gone
C32_UntouchedKeysAreCleared ==
    [][(/\ scan.op = "clearByPrefix" /\ scan'.op = None /\ ~last'.failed) =>
          \A k \in scan'.seen \ scan'.late : k \notin DOMAIN rstore']_vars

\* clearByPrefix has returned without an error, a key that was on the server
\* when the scan started is gone, and a key set during the scan, after the
\* cursor had passed its slot, is still on the server
C32_Witness ==
    /\ last.op = "clearByPrefix" /\ last.h = Redis /\ ~last.failed
    /\ scan.op = None
    /\ \E k \in scan.seen : k \notin DOMAIN rstore
    /\ \E k \in scan.late : k \in DOMAIN rstore

====
